---- MODULE Spec2Model ----
(***************************************************************************)
(* Soft-delete / dependency-aware restore engine of the admin backend:     *)
(* the trash store (RecentlyDeletedItem), the capture path (post_delete    *)
(* signal), the dependency resolver and the topological restorer.          *)
(*                                                                         *)
(* Values are strings.  A Python int n is "int:n", a datetime at instant n *)
(* is "dt:n", its ISO-8601 text is "iso:n", a list is "list:..."; every    *)
(* other string is a Python str.  Dictionaries (snapshots, rows, payloads) *)
(* are functions whose DOMAIN is the set of keys present.                  *)
(*                                                                         *)
(* resp is the response of the request in progress.  Besides the status    *)
(* and the fields of the HTTP body it records what the handler did (seeds, *)
(* nodes, ordered, writes, links), so that properties of one call can be   *)
(* stated on the step that performs it.  A trash entry also remembers the  *)
(* row it was captured from (origin); no operation reads it.  The          *)
(* notifications a step emits are recorded in its response (notified).     *)
(*                                                                         *)
(* calls holds the restore requests served concurrently (SpecRace): for    *)
(* each its position, the entries it keeps in memory, the rows its open    *)
(* transaction has written and the entries that were purged before its     *)
(* first upsert (gone; no operation reads it).  In the other               *)
(* specifications requests are served one at a time and calls is empty.    *)
(***************************************************************************)
EXTENDS Integers, Sequences, FiniteSets, TLC

VARIABLES world, live, trash, clock, resp, calls

vars == <<world, live, trash, clock, resp, calls>>

-----------------------------------------------------------------------------
(* Bounds of the exploration *)

MaxTrash == 4
MaxClock == 2
MaxSeeds == 2

-----------------------------------------------------------------------------
(* Values *)

Null == "null"

Int0 == "int:0"
Int1 == "int:1"
EmptyList == "list:[]"

Instants == 0..(MaxClock + 1)
DtTable == [n \in Instants |-> "dt:" \o ToString(n)]
IsoTable == [n \in Instants |-> "iso:" \o ToString(n)]
DtValues == {DtTable[n] : n \in Instants}
IsoValues == {IsoTable[n] : n \in Instants}

Dt(n) == DtTable[n]
Iso(n) == IsoTable[n]
IsInt(v) == v \in {Int0, Int1}
IsDt(v) == v \in DtValues
IsIso(v) == v \in IsoValues

\* Python str(v)
Str(v) ==
  IF v = Null THEN "None"
  ELSE IF v = Int0 THEN "0"
  ELSE IF v = Int1 THEN "1"
  ELSE IF v = EmptyList THEN "[]"
  ELSE v

\* Python truthiness of a scalar: None, "" and 0 are falsy
Truthy(v) == v \notin {Null, "", Int0}

\* dict.get(key) with default None
Get(d, k) == IF k \in DOMAIN d THEN d[k] ELSE Null

EmptyDict == [k \in {} |-> Null]

Put(d, k, v) == [q \in DOMAIN d \cup {k} |-> IF q = k THEN v ELSE d[q]]

Without(d, k) == [q \in DOMAIN d \ {k} |-> d[q]]

\* sequence helpers
Range(s) == {s[i] : i \in DOMAIN s}

\* F at the value of v, v being evaluated once
Let(v, F(_)) == CHOOSE r \in {F(x) : x \in {v}} : TRUE

RECURSIVE SeqOfSet(_)
SeqOfSet(S) ==
  IF S = {} THEN <<>>
  ELSE Let(CHOOSE y \in S : TRUE, LAMBDA x : <<x>> \o SeqOfSet(S \ {x}))

RECURSIVE Flatten(_)
Flatten(ss) == IF ss = <<>> THEN <<>> ELSE Head(ss) \o Flatten(Tail(ss))

\* a union that keeps every occurrence
Dedup_Off(s) == s

RECURSIVE Dedup(_)
\* keep the first occurrence of every element
Dedup(s) ==
  IF s = <<>> THEN <<>>
  ELSE Let(Dedup(SubSeq(s, 1, Len(s) - 1)), LAMBDA r :
         IF s[Len(s)] \in Range(r) THEN r ELSE Append(r, s[Len(s)]))

MapSeq(s, F(_)) == [i \in 1..Len(s) |-> F(s[i])]

\* a cleanup that walks the upsert order as it is
Reverse_Forward(s) == s

Reverse(s) == [i \in 1..Len(s) |-> s[Len(s) + 1 - i]]

-----------------------------------------------------------------------------
(* The live data model: the entity types whose rows the model creates and  *)
(* deletes, with their primary key, their foreign keys and the fields      *)
(* whose value changes form between a row and its snapshot.  Kinds: "pk"   *)
(* CharField primary key, "auto" AutoField id, "cascade" / "set_null"      *)
(* ForeignKey by on_delete, "json" JSONField, "auto_now_add" DateTimeField.*)

Fld(att, name, kind, to) == [att |-> att, name |-> name, kind |-> kind, to |-> to]

SCHEMA ==
  [ Product |-> << Fld("product_id", "product_id", "pk", "") >>,
    ProductVariant |->
      << Fld("variant_id", "variant_id", "pk", ""),
         Fld("product_id", "product", "cascade", "Product") >>,
    VariantCombination |->
      << Fld("combo_id", "combo_id", "pk", ""),
         Fld("variant_id", "variant", "cascade", "ProductVariant") >>,
    Attribute |->
      << Fld("attr_id", "attr_id", "pk", ""),
         Fld("product_id", "product", "cascade", "Product"),
         Fld("parent_id", "parent", "cascade", "Attribute") >>,
    Image |->
      << Fld("image_id", "image_id", "pk", ""),
         Fld("tags", "tags", "json", ""),
         Fld("created_at", "created_at", "auto_now_add", "") >>,
    ProductImage |->
      << Fld("id", "id", "auto", ""),
         Fld("product_id", "product", "cascade", "Product"),
         Fld("image_id", "image", "cascade", "Image") >>,
    FirstCarousel |-> << Fld("id", "id", "auto", "") >>,
    FirstCarouselImage |->
      << Fld("id", "id", "auto", ""),
         Fld("carousel_id", "carousel", "cascade", "FirstCarousel"),
         Fld("image_id", "image", "cascade", "Image"),
         Fld("subcategory_id", "subcategory", "set_null", "SubCategory") >>,
    CallbackRequest |->
      << Fld("callback_id", "callback_id", "pk", ""),
         Fld("created_at", "created_at", "auto_now_add", "") >>,
    Cart |->
      << Fld("cart_id", "cart_id", "pk", ""),
         Fld("created_at", "created_at", "auto_now_add", "") >>,
    CartItem |->
      << Fld("item_id", "item_id", "pk", ""),
         Fld("cart_id", "cart", "cascade", "Cart"),
         Fld("product_id", "product", "cascade", "Product") >> ]

\* the classes apps.get_models() lists, by __name__
MODELS ==
  { "User", "Admin", "AdminRole", "AdminRoleMap", "Image", "Category",
    "CategoryImage", "SubCategory", "SubCategoryImage",
    "CategorySubCategoryMap", "AttributeSubCategory", "Product",
    "ProductInventory", "ProductVariant", "VariantCombination",
    "ShippingInfo", "ProductSEO", "ProductSubCategoryMap", "ProductImage",
    "ProductTestimonial", "Attribute", "Orders", "OrderItem",
    "OrderDelivery", "Cart", "CartItem", "BlogPost", "BlogImage",
    "BlogComment", "Notification", "CallbackRequest", "HeroBanner",
    "HeroBannerImage", "DeletedItemsCache", "SiteSettings",
    "DashboardSnapshot", "FirstCarousel", "FirstCarouselImage",
    "SecondCarousel", "SecondCarouselImage", "Testimonial", "SiteBranding",
    "ProductCards", "RecentlyDeletedItem" }

\* _model(name): the class, or None
_model(name) == IF name \in MODELS THEN name ELSE Null

ConcreteFields(t) == IF t \in DOMAIN SCHEMA THEN SCHEMA[t] ELSE <<>>

\* the columns declared null=True
NULLABLE ==
  { <<"Attribute", "parent_id">>, <<"FirstCarouselImage", "subcategory_id">> }

\* model._meta.pk.name: the CharField primary key, or the implicit AutoField
PkName(t) ==
  SCHEMA[t][CHOOSE i \in DOMAIN SCHEMA[t] :
              SCHEMA[t][i].kind \in {"pk", "auto"}].att

-----------------------------------------------------------------------------
(* DEPENDENCY_RULES *)

PRule(m, k, f) == [model |-> m, key |-> k, fkname |-> f, optional |-> FALSE]
ORule(m, k, f) == [model |-> m, key |-> k, fkname |-> f, optional |-> TRUE]
ByProduct == PRule("Product", "product_id", "product_id")
ByImage == PRule("Image", "image_id", "image_id")
BySubCategory == PRule("SubCategory", "subcategory_id", "subcategory_id")
ByCategory == PRule("Category", "category_id", "category_id")
ByBlog == PRule("BlogPost", "blog_id", "blog_id")
Rule(s, ps, cs) == [standalone |-> s, parents |-> ps, corestore |-> cs]
OnlyProduct == Rule(FALSE, <<ByProduct>>, <<>>)

DEPENDENCY_RULES ==
  [ Product |-> Rule(TRUE, <<>>,
      << <<"ProductSEO", "product_id", "product_id">>,
         <<"ProductCards", "product_id", "product_id">>,
         <<"ProductInventory", "product_id", "product_id">>,
         <<"ProductVariant", "product_id", "product_id">>,
         <<"ProductImage", "product_id", "product_id">>,
         <<"Attribute", "product_id", "product_id">>,
         <<"ProductSubCategoryMap", "product_id", "product_id">>,
         <<"ProductTestimonial", "product_id", "product_id">>,
         <<"ShippingInfo", "product_id", "product_id">> >>),
    ProductVariant |-> Rule(FALSE, <<ByProduct>>,
      << <<"VariantCombination", "variant_id", "variant_id">> >>),
    VariantCombination |-> Rule(FALSE,
      << PRule("ProductVariant", "variant_id", "variant_id") >>, <<>>),
    ProductImage |-> Rule(FALSE, <<ByProduct, ByImage>>, <<>>),
    ProductInventory |-> OnlyProduct,
    ProductSEO |-> OnlyProduct,
    ProductCards |-> OnlyProduct,
    Attribute |-> Rule(FALSE,
      << ByProduct, ORule("Attribute", "parent_id", "attr_id") >>, <<>>),
    ProductSubCategoryMap |-> Rule(FALSE, <<ByProduct, BySubCategory>>, <<>>),
    ProductTestimonial |-> OnlyProduct,
    ShippingInfo |-> OnlyProduct,
    Category |-> Rule(TRUE, <<>>,
      << <<"CategoryImage", "category_id", "category_id">>,
         <<"CategorySubCategoryMap", "category_id", "category_id">> >>),
    CategoryImage |-> Rule(FALSE, <<ByCategory, ByImage>>, <<>>),
    SubCategory |-> Rule(TRUE, <<>>,
      << <<"SubCategoryImage", "subcategory_id", "subcategory_id">>,
         <<"CategorySubCategoryMap", "subcategory_id", "subcategory_id">>,
         <<"ProductSubCategoryMap", "subcategory_id", "subcategory_id">> >>),
    SubCategoryImage |-> Rule(FALSE, <<BySubCategory, ByImage>>, <<>>),
    CategorySubCategoryMap |-> Rule(FALSE, <<ByCategory, BySubCategory>>, <<>>),
    BlogPost |-> Rule(TRUE, <<>>,
      << <<"BlogImage", "blog_id", "blog_id">>,
         <<"BlogComment", "blog_id", "blog_id">> >>),
    BlogImage |-> Rule(FALSE, <<ByBlog, ByImage>>, <<>>),
    BlogComment |-> Rule(FALSE, <<ByBlog>>, <<>>),
    FirstCarousel |-> Rule(TRUE, <<>>,
      << <<"FirstCarouselImage", "carousel_id", "id">> >>),
    FirstCarouselImage |-> Rule(FALSE,
      << PRule("FirstCarousel", "carousel_id", "id"), ByImage,
         ORule("SubCategory", "subcategory_id", "subcategory_id") >>, <<>>),
    SecondCarousel |-> Rule(TRUE, <<>>,
      << <<"SecondCarouselImage", "carousel_id", "id">> >>),
    SecondCarouselImage |-> Rule(FALSE,
      << PRule("SecondCarousel", "carousel_id", "id"), ByImage,
         ORule("SubCategory", "subcategory_id", "subcategory_id") >>, <<>>),
    Image |-> Rule(TRUE, <<>>, <<>>),
    Cart |-> Rule(TRUE, <<>>, << <<"CartItem", "cart_id", "cart_id">> >>),
    CartItem |-> Rule(FALSE, << PRule("Cart", "cart_id", "cart_id") >>, <<>>) ]

\* DEPENDENCY_RULES.get(table, {...}) followed by .get("parents", []) etc.
RuleParents(t) ==
  IF t \in DOMAIN DEPENDENCY_RULES THEN DEPENDENCY_RULES[t].parents ELSE <<>>
RuleCorestore(t) ==
  IF t \in DOMAIN DEPENDENCY_RULES THEN DEPENDENCY_RULES[t].corestore ELSE <<>>
RuleStandalone(t) ==
  IF t \in DOMAIN DEPENDENCY_RULES THEN DEPENDENCY_RULES[t].standalone ELSE TRUE

\* the tuples the parent lambdas of table t return for snapshot rd, None dropped
ParentTuples(t, rd) ==
  LET Tup(r) == <<r.model, Get(rd, r.key), r.fkname>>
      Some(r) == ~r.optional \/ Truthy(Get(rd, r.key))
  IN MapSeq(SelectSeq(RuleParents(t), Some), Tup)

-----------------------------------------------------------------------------
(* The rows the exploration creates and deletes.  A row is identified by  *)
(* <<table, str(pk)>>; live maps the keys of the rows present to their     *)
(* field dictionaries.                                                     *)

P1 == <<"Product", "P1">>
V1 == <<"ProductVariant", "V1">>
K1 == <<"VariantCombination", "K1">>
A1 == <<"Attribute", "A1">>
A2 == <<"Attribute", "A2">>
I1 == <<"Image", "I1">>
PI1 == <<"ProductImage", "1">>
F1 == <<"FirstCarousel", "1">>
FI1 == <<"FirstCarouselImage", "1">>
B1 == <<"CallbackRequest", "B1">>
CT1 == <<"Cart", "CT1">>
CI1 == <<"CartItem", "CI1">>

Worlds ==
  { {P1, V1, K1, A1}, {P1, A1, A2}, {P1, I1, PI1}, {F1, FI1, I1}, {B1, I1} }

\* the field values a view gives the row it inserts at instant now;
\* an Attribute is inserted as an option of parent (None: top level)
NewRow(k, parent, now) ==
  CASE k = P1 -> [product_id |-> "P1"]
    [] k = V1 -> [variant_id |-> "V1", product_id |-> "P1"]
    [] k = K1 -> [combo_id |-> "K1", variant_id |-> "V1"]
    [] k \in {A1, A2} ->
         [attr_id |-> k[2], product_id |-> "P1", parent_id |-> parent]
    [] k = I1 -> [image_id |-> "I1", tags |-> EmptyList, created_at |-> Dt(now)]
    [] k = PI1 -> [id |-> Int1, product_id |-> "P1", image_id |-> "I1"]
    [] k = F1 -> [id |-> Int1]
    [] k = FI1 -> [id |-> Int1, carousel_id |-> Int1,
                   image_id |-> "I1", subcategory_id |-> Null]
    [] k = B1 -> [callback_id |-> "B1", created_at |-> Dt(now)]
    [] k = CT1 -> [cart_id |-> "CT1", created_at |-> Dt(now)]
    [] k = CI1 -> [item_id |-> "CI1", cart_id |-> "CT1", product_id |-> "P1"]

\* M.objects.filter(pk=pk).exists(): the lookup coerces pk to the key's type
RowExists(t, pk) == <<t, Str(pk)>> \in DOMAIN live

\* the foreign keys of a row: <<target table, value>> for every non-null one
ForeignKeys(t, row) ==
  { <<SCHEMA[t][i].to, row[SCHEMA[t][i].att]>> :
      i \in { j \in DOMAIN SCHEMA[t] :
                /\ SCHEMA[t][j].kind \in {"cascade", "set_null"}
                /\ SCHEMA[t][j].att \in DOMAIN row
                /\ row[SCHEMA[t][j].att] # Null } }

\* rows of store that reference key k through an on_delete=CASCADE field
CascadeChildren(store, k) ==
  { c \in DOMAIN store :
      \E i \in DOMAIN SCHEMA[c[1]] :
        /\ SCHEMA[c[1]][i].kind = "cascade"
        /\ SCHEMA[c[1]][i].to = k[1]
        /\ store[c][SCHEMA[c[1]][i].att] # Null
        /\ Str(store[c][SCHEMA[c[1]][i].att]) = k[2] }

RECURSIVE Collect(_, _)
\* django Collector: the rows deleted together with the rows of S
Collect(store, S) ==
  Let(UNION { CascadeChildren(store, k) : k \in S } \ S, LAMBDA more :
    IF more = {} THEN S ELSE Collect(store, S \cup more))

-----------------------------------------------------------------------------
(* Capture path (signals.py) *)

\* _to_jsonable(value)
_to_jsonable(v) ==
  IF v = Null \/ IsInt(v) THEN v
  ELSE IF IsDt(v) THEN Iso(CHOOSE n \in Instants : v = Dt(n))
  ELSE IF v = EmptyList THEN Str(v)
  ELSE v

RECURSIVE SerializeFrom(_, _, _, _)
\* the loop of serialize_instance_for_trash from field i on; bad is the index
\* of the field whose getattr raises (0: none)
SerializeFrom(t, row, bad, i) ==
  IF i > Len(ConcreteFields(t)) THEN EmptyDict
  ELSE Let(SerializeFrom(t, row, bad, i + 1), LAMBDA rest :
         LET f == ConcreteFields(t)[i]
         IN IF i = bad THEN Put(rest, f.name, Null)
            ELSE Put(rest, f.att, _to_jsonable(Get(row, f.att))))

serialize_instance_for_trash(t, row, bad) == SerializeFrom(t, row, bad, 1)

\* str(instance)
Repr(t, row) ==
  IF t = "Image" THEN Str(row[PkName(t)])
  ELSE t \o " object (" \o Str(row[PkName(t)]) \o ")"

Ids(T) == {e.id : e \in T}

\* the primary key the store gives a new trash entry
NewId(T) == CHOOSE i \in 1..(Cardinality(T) + 1) :
              i \notin Ids(T) /\ \A j \in 1..(i - 1) : j \in Ids(T)

NoFault == [kind |-> "none", row |-> <<>>, field |-> 0]

\* a capture that gives up when the entry cannot be written
capture_deleted_instance_NoFallback(T, model_name, row, parent, fault) ==
  LET pk == Str(row[PkName(model_name)])
      hit == fault.row = <<model_name, pk>>
      bad == IF hit /\ fault.kind = "field" THEN fault.field ELSE 0
  IN IF hit /\ fault.kind \in {"write", "both"} THEN T
     ELSE T \cup {[id |-> NewId(T), table_name |-> model_name, record_id |-> pk,
                   record_data |-> serialize_instance_for_trash(model_name, row, bad),
                   deleted_reason |-> "deleted", status |-> "VISIBLE",
                   parent |-> parent, origin |-> row]}

\* capture_deleted_instance(model_name, instance, parent, reason): the trash
\* store after the call.  fault.kind: "field" (reading one field raises),
\* "write" (the full entry cannot be written), "both" (nor can the fallback)
capture_deleted_instance(T, model_name, row, parent, fault) ==
  LET pk == Str(row[PkName(model_name)])
      hit == fault.row = <<model_name, pk>>
      bad == IF hit /\ fault.kind = "field" THEN fault.field ELSE 0
      entry == [id |-> NewId(T), table_name |-> model_name, record_id |-> pk,
                record_data |-> serialize_instance_for_trash(model_name, row, bad),
                deleted_reason |-> "deleted", status |-> "VISIBLE",
                parent |-> parent, origin |-> row]
      fallback == [entry EXCEPT
                     !.record_data = [pk |-> pk, repr |-> Repr(model_name, row)],
                     !.deleted_reason = "fallback"]
  IN IF hit /\ fault.kind = "both" THEN T
     ELSE IF hit /\ fault.kind = "write" THEN T \cup {fallback}
     ELSE T \cup {entry}

\* log_any_deletion(sender, instance): the post_delete receiver
log_any_deletion(T, sender, row, fault) ==
  IF sender \in {"RecentlyDeletedItem"} THEN T
  ELSE capture_deleted_instance(T, sender, row, 0, fault)

\* a receiver that hears only of the first row deleted
CaptureAll_FirstOnly(T, store, keys, fault) ==
  IF keys = <<>> THEN T
  ELSE log_any_deletion(T, Head(keys)[1], store[Head(keys)], fault)

RECURSIVE CaptureAll(_, _, _, _)
\* post_delete is sent once for every row the collector deleted
CaptureAll(T, store, keys, fault) ==
  IF keys = <<>> THEN T
  ELSE Let(log_any_deletion(T, Head(keys)[1], store[Head(keys)], fault),
           LAMBDA T2 : CaptureAll(T2, store, Tail(keys), fault))

\* what can fail while one of the rows D is captured: reading a field
\* other than the primary key, the write of the entry, or that write and the
\* write of the fallback entry
CaptureFaults(D) ==
  {NoFault}
    \cup { [kind |-> kd, row |-> k, field |-> 0] : kd \in {"write", "both"}, k \in D }
    \cup UNION { { [kind |-> "field", row |-> k, field |-> i] :
                    i \in 2..Len(ConcreteFields(k[1])) } : k \in D }

-----------------------------------------------------------------------------
(* The trash store: RecentlyDeletedItem rows                               *)
(*   [id, table_name, record_id, record_data, deleted_reason, status,      *)
(*    parent, origin], parent = 0 standing for NULL.                       *)

Entry(T, id) == CHOOSE e \in T : e.id = id

RECURSIVE SortedIds(_)
\* a query without ORDER BY returns its rows by primary key
SortedIds(S) ==
  IF S = {} THEN <<>>
  ELSE Let(CHOOSE i \in S : \A j \in S : i <= j, LAMBDA m :
         <<m>> \o SortedIds(S \ {m}))

\* RecentlyDeletedItem.objects.filter(table_name=t, record_id=rid)
Matches(T, t, rid) == {e.id : e \in {x \in T : x.table_name = t /\ x.record_id = rid}}

\* ....first(): the id of the first match, 0 for None
TrashFirst(T, t, rid) ==
  Let(Matches(T, t, rid), LAMBDA found :
    IF found = {} THEN 0 ELSE SortedIds(found)[1])

\* target.children.all(): the entries whose parent is id
Children(T, id) == {e.id : e \in {x \in T : x.parent = id}}

RECURSIVE Descendants(_, _)
\* id and the entries below it in the trash tree
Descendants(T, S) ==
  Let(UNION { Children(T, i) : i \in S } \ S, LAMBDA more :
    IF more = {} THEN S ELSE Descendants(T, S \cup more))

\* a delete that leaves the entries linked below in place
TrashDelete_Alone(T, id) == {e \in T : e.id # id}

\* instance.delete() on a trash entry: the parent link cascades
TrashDelete(T, id) ==
  Let(Descendants(T, {id}), LAMBDA gone : {e \in T : e.id \notin gone})

-----------------------------------------------------------------------------
(* Dependency resolver (deleted.py) *)

\* _exists_live(model_name, pk)
_exists_live(store, model_name, pk) ==
  IF _model(model_name) = Null \/ pk \in {Null, "", Int0} THEN FALSE
  ELSE <<model_name, Str(pk)>> \in DOMAIN store

\* a blocked_by list that takes only live rows as present
_parents_for_LiveOnly(store, T, item) ==
  LET Missing(tup) == ~_exists_live(store, tup[1], tup[2])
      Blocked(tup) == [model |-> tup[1],
                       id |-> IF Truthy(tup[2]) THEN Str(tup[2]) ELSE "",
                       reason |-> "missing-parent"]
  IN MapSeq(SelectSeq(ParentTuples(item.table_name, item.record_data), Missing),
            Blocked)

\* _parents_for(item): the blocked_by list of a trash entry
_parents_for(store, T, item) ==
  LET tups == ParentTuples(item.table_name, item.record_data)
      Missing(tup) ==
        LET in_live == _exists_live(store, tup[1], tup[2])
            in_trash == Matches(T, tup[1], Str(tup[2])) # {}
        IN ~(in_live \/ in_trash)
      Blocked(tup) == [model |-> tup[1],
                       id |-> IF Truthy(tup[2]) THEN Str(tup[2]) ELSE "",
                       reason |-> "missing-parent"]
  IN MapSeq(SelectSeq(tups, Missing), Blocked)

\* _will_restore_with(item)
_will_restore_with(item) ==
  LET With(c) == [model |-> c[1], by |-> c[2], parent_field |-> c[3]]
  IN MapSeq(RuleCorestore(item.table_name), With)

\* an upward closure that finds no parent
_parents_in_trash_None(store, T, node) == <<>>

\* _parents_in_trash(node): ids of the direct parents that are not live and
\* have an entry in trash
_parents_in_trash(store, T, node) ==
  LET tups == ParentTuples(node.table_name, node.record_data)
      Hit(tup) == /\ Truthy(tup[2])
                  /\ ~_exists_live(store, tup[1], tup[2])
                  /\ TrashFirst(T, tup[1], Str(tup[2])) # 0
      First(tup) == TrashFirst(T, tup[1], Str(tup[2]))
  IN MapSeq(SelectSeq(tups, Hit), First)

\* direct_children(node): record_data__contains={fk_key: str(node.record_id)}
\* is JSON containment, which tells the string "1" from the number 1
direct_children(T, node) ==
  LET Of(c) == SortedIds({e.id : e \in {x \in T :
                  /\ x.table_name = c[1]
                  /\ c[2] \in DOMAIN x.record_data
                  /\ x.record_data[c[2]] = Str(node.record_id)}})
  IN Flatten(MapSeq(RuleCorestore(node.table_name), Of))

RECURSIVE BfsDown(_, _, _, _)
BfsDown(T, queue, seen, result) ==
  IF queue = <<>> THEN result
  ELSE LET Fresh(i) == i \notin seen
       IN Let(Dedup(SelectSeq(direct_children(T, Entry(T, Head(queue))), Fresh)),
              LAMBDA new :
                Let(<<Tail(queue) \o new, seen \cup Range(new), result \o new>>,
                    LAMBDA nx : BfsDown(T, nx[1], nx[2], nx[3])))

\* _collect_corestore_closure(seed): seed + descendants over corestore edges
_collect_corestore_closure(T, seed) == BfsDown(T, <<seed>>, {seed}, <<seed>>)

RECURSIVE BfsUp(_, _, _, _, _)
BfsUp(store, T, queue, seen, result) ==
  IF queue = <<>> THEN result
  ELSE LET Fresh(i) == i \notin seen
       IN Let(Dedup(SelectSeq(_parents_in_trash(store, T, Entry(T, Head(queue))),
                              Fresh)),
              LAMBDA new :
                Let(<<Tail(queue) \o new, seen \cup Range(new), result \o new>>,
                    LAMBDA nx : BfsUp(store, T, nx[1], nx[2], nx[3])))

\* _collect_upwards_closure(seed): the parents in trash, transitively
_collect_upwards_closure(store, T, seed) ==
  Let(_parents_in_trash(store, T, Entry(T, seed)), LAMBDA first :
    BfsUp(store, T, first, {seed} \cup Range(first), first))

\* the body of the loop "for s in seeds" after the blocking check: the nodes
\* one seed contributes
NodesOfSeed(store, T, s) ==
  LET Up(n) == _collect_upwards_closure(store, T, n)
      ImgsOf(nodes, n) ==
        LET tups == ParentTuples(Entry(T, n).table_name, Entry(T, n).record_data)
            IsImg(tup) == /\ tup[1] = "Image" /\ Truthy(tup[2])
                          /\ TrashFirst(T, "Image", Str(tup[2])) # 0
                          /\ TrashFirst(T, "Image", Str(tup[2])) \notin Range(nodes)
            Img(tup) == TrashFirst(T, "Image", Str(tup[2]))
        IN MapSeq(SelectSeq(tups, IsImg), Img)
  IN Let(_collect_corestore_closure(T, s) \o _collect_upwards_closure(store, T, s),
         LAMBDA nodes0 :
           LET NotIn0(i) == i \notin Range(nodes0)
           IN Let(nodes0 \o Dedup(SelectSeq(Flatten(MapSeq(nodes0, Up)), NotIn0)),
                  LAMBDA nodes1 :
                    LET Imgs(n) == ImgsOf(nodes1, n)
                    IN nodes1 \o Flatten(MapSeq(nodes1, Imgs))))

\* a seed check that tests the standalone flag the wrong way round
SeedBlocked_Inverted(store, T, s) ==
  /\ RuleStandalone(Entry(T, s).table_name)
  /\ _parents_for(store, T, Entry(T, s)) # <<>>

\* a seed the loop rejects: non-standalone with missing parents
SeedBlocked(store, T, s) ==
  /\ ~RuleStandalone(Entry(T, s).table_name)
  /\ _parents_for(store, T, Entry(T, s)) # <<>>

\* a restore without final guard
Blockers_Skipped(store, T, all_nodes) == <<>>

\* the final guard: the violations among the nodes of the closure
Blockers(store, T, all_nodes) ==
  LET Bad(n) == /\ ~RuleStandalone(Entry(T, n).table_name)
                /\ _parents_for(store, T, Entry(T, n)) # <<>>
      Violation(n) ==
        [item |-> <<Entry(T, n).table_name, Entry(T, n).record_id>>,
         blocked_by |-> _parents_for(store, T, Entry(T, n))]
  IN MapSeq(SelectSeq(all_nodes, Bad), Violation)

-----------------------------------------------------------------------------
(* Topological restorer (deleted.py, RestoreItemsAPIView.post) *)

\* by_key: (table_name, str(record_id)) -> node; a later node replaces an
\* earlier one with the same key.  0: no node
ByKey(T, all_nodes, t, rid) ==
  LET same == {i \in DOMAIN all_nodes :
                 /\ Entry(T, all_nodes[i]).table_name = t
                 /\ Entry(T, all_nodes[i]).record_id = rid}
  IN IF same = {} THEN 0
     ELSE all_nodes[CHOOSE i \in same : \A j \in same : j <= i]

\* the parent nodes of child inside the closure, one per parent rule that
\* resolves to a node
ParentNodes(T, all_nodes, child) ==
  LET tups == ParentTuples(Entry(T, child).table_name, Entry(T, child).record_data)
      In(tup) == /\ Truthy(tup[2])
                 /\ ByKey(T, all_nodes, tup[1], Str(tup[2])) # 0
      Node(tup) == ByKey(T, all_nodes, tup[1], Str(tup[2]))
  IN MapSeq(SelectSeq(tups, In), Node)

\* graph[n]: the children appended to n, in the order the loop appends them
Graph(T, all_nodes) ==
  [n \in Range(all_nodes) |->
     Flatten([i \in 1..Len(all_nodes) |->
       LET ps == ParentNodes(T, all_nodes, all_nodes[i])
           IsN(p) == p = n
       IN [j \in 1..Len(SelectSeq(ps, IsN)) |-> all_nodes[i]]])]

Indeg(T, all_nodes) ==
  [n \in Range(all_nodes) |-> Len(ParentNodes(T, all_nodes, n))]

RECURSIVE Relax(_, _, _)
\* "for nxt in graph[cur]": <<indeg, q>> after the loop
Relax(nxts, indeg, q) ==
  IF nxts = <<>> THEN <<indeg, q>>
  ELSE Let([indeg EXCEPT ![Head(nxts)] = @ - 1], LAMBDA d :
         Let(IF d[Head(nxts)] = 0 THEN Append(q, Head(nxts)) ELSE q, LAMBDA q2 :
           Relax(Tail(nxts), d, q2)))

RECURSIVE Kahn(_, _, _, _)
Kahn(graph, indeg, q, ordered_ids) ==
  IF q = <<>> THEN ordered_ids
  ELSE Let(Relax(graph[Head(q)], indeg, Tail(q)), LAMBDA r :
         Let(Append(ordered_ids, Head(q)), LAMBDA out :
           Kahn(graph, r[1], r[2], out)))

\* weight(node) of the cycle fallback
Weight(T, n) == Len(RuleParents(Entry(T, n).table_name))

\* a fallback that sorts with more parent rules first
SortedByWeight_Heaviest(T, all_nodes) ==
  Let(SortedIds({Weight(T, all_nodes[i]) : i \in DOMAIN all_nodes}), LAMBDA wseq :
    Flatten([k \in 1..Len(wseq) |->
      LET Has(n) == Weight(T, n) = wseq[Len(wseq) + 1 - k]
      IN SelectSeq(all_nodes, Has)]))

\* sorted(all_nodes, key=weight): stable
SortedByWeight(T, all_nodes) ==
  Let(SortedIds({Weight(T, all_nodes[i]) : i \in DOMAIN all_nodes}), LAMBDA wseq :
    Flatten([k \in 1..Len(wseq) |->
      LET Has(n) == Weight(T, n) = wseq[k] IN SelectSeq(all_nodes, Has)]))

\* an ordering that keeps the closure in collection order
Ordered_AsCollected(T, all_nodes) == all_nodes

\* ordered: Kahn's order, or the fallback when a cycle leaves nodes out
Ordered(T, all_nodes) ==
  Let(<<Graph(T, all_nodes), Indeg(T, all_nodes)>>, LAMBDA g :
    LET Zero(n) == g[2][n] = 0
    IN Let(Kahn(g[1], g[2], SelectSeq(all_nodes, Zero), <<>>), LAMBDA ordered_ids :
         IF Len(ordered_ids) # Len(all_nodes) THEN SortedByWeight(T, all_nodes)
         ELSE ordered_ids))

\* Field.to_python of the value a snapshot holds
ToPython(kind, v) ==
  IF kind = "auto_now_add" /\ IsIso(v) THEN Dt(CHOOSE n \in Instants : v = Iso(n))
  ELSE v

\* the value a field takes when the insert gives none
FieldDefault(kind) == IF kind = "json" THEN EmptyList ELSE Null

\* the defaults= dictionary _recreate_instance builds
RecreateData(model, payload) ==
  LET fs == ConcreteFields(model)
      present == {i \in DOMAIN fs : fs[i].att \in DOMAIN payload}
  IN [a \in {fs[i].att : i \in present} |->
        ToPython(fs[CHOOSE i \in present : fs[i].att = a].kind, payload[a])]

\* the key update_or_create(pk=payload.get(pk_name)) looks up, and inserts
\* under when there is no such row ("new": the key the database assigns to an
\* AutoField left empty)
UpsertKey(model, payload) ==
  LET pkv == Get(payload, PkName(model))
      auto == \E i \in DOMAIN SCHEMA[model] : SCHEMA[model][i].kind = "auto"
  IN IF pkv = Null /\ auto THEN <<model, "new">> ELSE <<model, Str(pkv)>>

\* the row update_or_create(pk=..., defaults=data) leaves at instant now
UpsertRow(store, model, payload, now) ==
  Let(<<RecreateData(model, payload), UpsertKey(model, payload)>>, LAMBDA dk :
    LET fs == ConcreteFields(model)
        data == dk[1]
        key == dk[2]
        updated == [a \in DOMAIN store[key] |->
                      IF a \in DOMAIN data THEN data[a] ELSE store[key][a]]
        created == [a \in {fs[i].att : i \in DOMAIN fs} |->
                      LET f == fs[CHOOSE i \in DOMAIN fs : fs[i].att = a]
                      IN IF f.kind = "auto_now_add" THEN Dt(now)
                         ELSE IF f.kind = "auto" /\ Get(data, a) = Null THEN "new"
                         ELSE IF a \in DOMAIN data THEN data[a]
                         ELSE FieldDefault(f.kind)]
    IN IF key \in DOMAIN store THEN updated ELSE created)

\* the statement raises IntegrityError: NULL in a column that is not nullable
UpsertRaises(store, model, payload, now) ==
  Let(UpsertRow(store, model, payload, now), LAMBDA row :
    \E a \in DOMAIN row : row[a] = Null /\ <<model, a>> \notin NULLABLE)

\* _recreate_instance(model, payload): the live store after the upsert
_recreate_instance(store, model, payload, now) ==
  Let(<<UpsertKey(model, payload), UpsertRow(store, model, payload, now)>>,
      LAMBDA kr :
        [k \in DOMAIN store \cup {kr[1]} |-> IF k = kr[1] THEN kr[2] ELSE store[k]])

\* a pass 1 that writes the snapshot as it is
Pass1Payload_Unstripped(node) == node.record_data

\* payload of pass 1: the snapshot, without parent_id for an Attribute that
\* has one
Pass1Payload(node) ==
  IF node.table_name = "Attribute" /\ Truthy(Get(node.record_data, "parent_id"))
  THEN Without(node.record_data, "parent_id")
  ELSE node.record_data

\* pending_attr_parent_links after node: a dict keeps the position of a key
\* it already holds
Stash(pending, node) ==
  IF node.table_name = "Attribute" /\ Truthy(Get(node.record_data, "parent_id"))
  THEN LET k == Str(Get(node.record_data, "attr_id"))
           v == Str(node.record_data.parent_id)
           at == {i \in DOMAIN pending : pending[i][1] = k}
       IN IF at = {} THEN Append(pending, <<k, v>>)
          ELSE [i \in DOMAIN pending |-> IF i \in at THEN <<k, v>> ELSE pending[i]]
  ELSE pending

RECURSIVE Pass1(_, _, _, _, _, _, _)
\* Pass 1 from position i: upsert every node in order.  failAt is the
\* position whose upsert the database refuses for a reason of its own, such
\* as a foreign key it checks at once (0: none).
\* Result: [failed, unknown, store, pending]
Pass1(T, ordered, i, failAt, now, store, pending) ==
  IF i > Len(ordered)
  THEN [failed |-> 0, unknown |-> FALSE, store |-> store, pending |-> pending]
  ELSE Let(Entry(T, ordered[i]), LAMBDA n :
         Let(Pass1Payload(n), LAMBDA payload :
           IF _model(n.table_name) = Null
           THEN [failed |-> i, unknown |-> TRUE, store |-> store, pending |-> pending]
           ELSE IF i = failAt \/ UpsertRaises(store, n.table_name, payload, now)
           THEN [failed |-> i, unknown |-> FALSE, store |-> store, pending |-> pending]
           ELSE Let(<<_recreate_instance(store, n.table_name, payload, now),
                      Stash(pending, n)>>,
                    LAMBDA nx : Pass1(T, ordered, i + 1, failAt, now, nx[1], nx[2]))))

RECURSIVE Pass2(_, _, _, _)
\* Pass 2 from position i: Attr.objects.filter(pk=attr_id).update(parent_id=..)
\* Result: [failed, store]
Pass2(pending, i, failAt, store) ==
  IF i > Len(pending) THEN [failed |-> 0, store |-> store]
  ELSE IF i = failAt THEN [failed |-> i, store |-> store]
  ELSE LET key == <<"Attribute", pending[i][1]>>
       IN Let(IF key \in DOMAIN store
              THEN [store EXCEPT ![key].parent_id = pending[i][2]]
              ELSE store,
              LAMBDA updated : Pass2(pending, i + 1, failAt, updated))

\* a restore that leaves the trash store as it is
Pass3_Kept(T, ids, i, failAt) == T

RECURSIVE Pass3(_, _, _, _)
\* Pass 3 from position i: n.delete() for every node, in the order given;
\* the delete at position failAt raises, which the loop ignores
Pass3(T, ids, i, failAt) ==
  IF i > Len(ids) THEN T
  ELSE IF i = failAt THEN Pass3(T, ids, i + 1, failAt)
  ELSE Let(TrashDelete(T, ids[i]), LAMBDA T2 : Pass3(T2, ids, i + 1, failAt))

\* MUTE_NOTIFY_MODELS
MUTE_NOTIFY_MODELS == {"Cart", "CartItem"}

\* will_touch_models: the entity types a restore with this order writes
Touched(T, ordered) == { Entry(T, n).table_name : n \in Range(ordered) }

\* the post_save receivers of signals.py that create a Notification on every
\* save of their sender: sender -> source_table
RECEIVERS ==
  [ Product |-> "Product", Admin |-> "Admin", SiteSettings |-> "SiteSettings",
    Orders |-> "Orders", BlogPost |-> "Blog", Category |-> "Category",
    SubCategory |-> "SubCategory" ]

\* a suppression that disconnects the receivers of every sender
muted_notifications_for_Everything(models_to_mute) == DOMAIN RECEIVERS

\* muted_notifications_for(models_to_mute): the senders whose receivers are
\* disconnected between entry and exit of the context manager; its body is
\* try: yield finally: pass
muted_notifications_for(models_to_mute) == {}

\* the senders whose receivers the restore calls in flight hold disconnected
Disconnected == UNION { calls[c].disc : c \in DOMAIN calls }

\* post_save for a saved row of model: the Notification rows
\* <<source_table, source_id>> its connected receivers create
post_save(model, pk, disconnected) ==
  IF model \in DOMAIN RECEIVERS /\ model \notin disconnected
  THEN << <<RECEIVERS[model], pk>> >>
  ELSE <<>>

Label(T, n) == <<Entry(T, n).table_name, Entry(T, n).record_id>>

\* the seeds of a request: the entries named by ids, in the order the query
\* returns them, then the first match of every record_ids item
SeedsOf(T, ids, record_ids) ==
  LET Known(i) == i \in Ids(T)
      Found(r) == TrashFirst(T, r[1], r[2]) # 0
      hits == SelectSeq(record_ids, Found)
  IN SelectSeq(ids, Known) \o [i \in 1..Len(hits) |-> TrashFirst(T, hits[i][1], hits[i][2])]

NoBody ==
  [seeds |-> <<>>, nodes |-> <<>>, ordered |-> <<>>, blocked_by |-> <<>>,
   details |-> <<>>, error |-> <<>>, writes |-> <<>>, links |-> <<>>,
   restored |-> <<>>, restored_count |-> 0, muted |-> {},
   disconnected |-> {}, notified |-> <<>>]

\* RestoreItemsAPIView.post up to the transaction: the seeds loop, the
\* de-duplication, the final guard and the ordering.  status 0: the
\* transaction is entered
RestorePlan(store, T, seeds) ==
  LET Nodes(sd) == NodesOfSeed(store, T, sd)
      base == [NoBody EXCEPT !.seeds = seeds]
  IN IF seeds = <<>> THEN [status |-> 400, body |-> base]
     ELSE Let({i \in DOMAIN seeds : SeedBlocked(store, T, seeds[i])},
              LAMBDA blockedSeeds :
       IF blockedSeeds # {}
       THEN LET firstBlocked == CHOOSE i \in blockedSeeds :
                                  \A j \in blockedSeeds : i <= j
            IN [status |-> 409,
                body |-> [base EXCEPT !.blocked_by =
                            _parents_for(store, T, Entry(T, seeds[firstBlocked]))]]
       ELSE Let(Dedup(Flatten(MapSeq(seeds, Nodes))), LAMBDA all_nodes :
              Let(Blockers(store, T, all_nodes), LAMBDA blockers :
                IF blockers # <<>>
                THEN [status |-> 409,
                      body |-> [base EXCEPT !.nodes = all_nodes,
                                            !.details = blockers]]
                ELSE [status |-> 0,
                      body |-> [base EXCEPT !.nodes = all_nodes,
                                            !.ordered = Ordered(T, all_nodes)]])))

\* a failure path that returns without marking the transaction for rollback
set_rollback_Forgotten(before, written) == written

\* transaction.set_rollback(True) followed by return: the live store the
\* call leaves, before being the store when the transaction was entered and
\* written the store with the writes made since
set_rollback(before, written) == before

\* the transaction of RestoreItemsAPIView.post: passes 1 to 3 at instant now,
\* inside muted_notifications_for(mute_set).
\* fault = <<pass, position>> names the statement the database refuses
\* (<<0, 0>>: none); a refused delete of pass 3 is ignored.  Result: the
\* response and the stores after the call; set_rollback(True) leaves both
\* stores as they were
RestoreRun(store, T, now, plan, fault) ==
  LET ordered == plan.body.ordered
      mute_set == Touched(T, ordered) \cap MUTE_NOTIFY_MODELS
      Out(st, body, l, t) == [status |-> st, body |-> body, live |-> l, trash |-> t]
  IN IF plan.status # 0 THEN Out(plan.status, plan.body, store, T)
     ELSE Let(Pass1(T, ordered, 1, IF fault[1] = 1 THEN fault[2] ELSE 0,
                    now, store, <<>>), LAMBDA p1 :
       LET done == IF p1.failed = 0 THEN Len(ordered) ELSE p1.failed - 1
           writes == [i \in 1..done |->
                        [model |-> Entry(T, ordered[i]).table_name,
                         payload |-> Pass1Payload(Entry(T, ordered[i]))]]
           disconnected == Disconnected \cup muted_notifications_for(mute_set)
           Emit(w) == post_save(w.model, UpsertKey(w.model, w.payload)[2],
                                disconnected)
           closed == [plan.body EXCEPT !.writes = writes,
                                       !.disconnected = disconnected,
                                       !.notified = Flatten(MapSeq(writes, Emit))]
       IN IF p1.failed # 0
          THEN Out(400, [closed EXCEPT !.error =
                           IF p1.unknown
                           THEN <<Entry(T, ordered[p1.failed]).table_name>>
                           ELSE Label(T, ordered[p1.failed])],
                   set_rollback(store, p1.store), T)
          ELSE Let(Pass2(p1.pending, 1, IF fault[1] = 2 THEN fault[2] ELSE 0,
                         p1.store), LAMBDA p2 :
            IF p2.failed # 0
            THEN Out(400, [closed EXCEPT !.error =
                             <<"Attribute", p1.pending[p2.failed][1]>>,
                           !.links = SubSeq(p1.pending, 1, p2.failed - 1)],
                     set_rollback(store, p2.store), T)
            ELSE Out(200, [closed EXCEPT
                             !.links = p1.pending,
                             !.restored = [i \in 1..Len(ordered) |->
                                             Label(T, ordered[i])],
                             !.restored_count = Len(ordered),
                             !.muted = mute_set],
                     p2.store,
                     Pass3(T, Reverse(ordered), 1,
                           IF fault[1] = 3 THEN fault[2] ELSE 0))))

RECURSIVE StashFrom(_, _, _, _)
StashFrom(T, ordered, i, pending) ==
  IF i > Len(ordered) THEN pending
  ELSE Let(Stash(pending, Entry(T, ordered[i])), LAMBDA stashed :
         StashFrom(T, ordered, i + 1, stashed))

\* the pending links pass 2 walks when pass 1 completes
PendingOf(T, ordered) == StashFrom(T, ordered, 1, <<>>)

\* the statements of the transaction the database can refuse
FaultsOf(T, plan) ==
  IF plan.status # 0 THEN {<<0, 0>>}
  ELSE {<<0, 0>>} \cup ({1} \X (1..Len(plan.body.ordered)))
         \cup ({2} \X (1..Len(PendingOf(T, plan.body.ordered))))
         \cup ({3} \X (1..Len(plan.body.ordered)))

-----------------------------------------------------------------------------
(* Operations on the trash store only (deleted.py) *)

\* a toggle that also empties the snapshot of the target
recursive_mark_Wipe(T, target, status_flag) ==
  {IF e.id \in Descendants(T, {target})
   THEN [e EXCEPT !.status = status_flag, !.record_data = EmptyDict]
   ELSE e : e \in T}

\* a toggle that stops at the children of the target
recursive_mark_OneLevel(T, target, status_flag) ==
  {IF e.id = target \/ e.parent = target THEN [e EXCEPT !.status = status_flag]
   ELSE e : e \in T}

RECURSIVE recursive_mark(_, _, _)
RECURSIVE MarkAll(_, _, _)
\* recover_item.recursive_mark(target): save the status, then the children
recursive_mark(T, target, status_flag) ==
  Let({IF e.id = target THEN [e EXCEPT !.status = status_flag] ELSE e : e \in T},
      LAMBDA saved :
        Let(SortedIds(Children(T, target)), LAMBDA ids :
          MarkAll(saved, ids, status_flag)))

MarkAll(T, ids, status_flag) ==
  IF ids = <<>> THEN T
  ELSE Let(recursive_mark(T, Head(ids), status_flag), LAMBDA T2 :
         MarkAll(T2, Tail(ids), status_flag))

\* recover_item(request): [status, trash]
recover_item(T, item_id, status_flag) ==
  IF status_flag \notin {"UNHIDE", "HIDE"} THEN [status |-> 400, trash |-> T]
  ELSE IF item_id \notin Ids(T) THEN [status |-> 404, trash |-> T]
  ELSE [status |-> 200, trash |-> recursive_mark(T, item_id, status_flag)]

RECURSIVE recursive_delete(_, _)
RECURSIVE DeleteAll(_, _)
\* permanently_delete_item.recursive_delete(target): the children, then target
recursive_delete(T, target) ==
  Let(SortedIds(Children(T, target)), LAMBDA ids :
    Let(DeleteAll(T, ids), LAMBDA T2 : TrashDelete(T2, target)))

DeleteAll(T, ids) ==
  IF ids = <<>> THEN T
  ELSE Let(recursive_delete(T, Head(ids)), LAMBDA T2 : DeleteAll(T2, Tail(ids)))

\* a purge that takes an absent id for done
permanently_delete_item_NoOp(T, item_id) ==
  IF item_id = 0 THEN [status |-> 400, trash |-> T]
  ELSE IF item_id \notin Ids(T) THEN [status |-> 200, trash |-> T]
  ELSE [status |-> 200, trash |-> TrashDelete(T, item_id)]

\* permanently_delete_item(request): [status, trash]; item_id 0: no id given
permanently_delete_item(T, item_id) ==
  IF item_id = 0 THEN [status |-> 400, trash |-> T]
  ELSE IF item_id \notin Ids(T) THEN [status |-> 404, trash |-> T]
  ELSE [status |-> 200, trash |-> recursive_delete(T, item_id)]

\* show_deleted_items(request): the items of the response (their order, by
\* deletion time, is not represented)
show_deleted_items(store, T) ==
  { [id |-> item.id, table |-> item.table_name, record_id |-> item.record_id,
     record_data |-> item.record_data, status |-> item.status,
     standalone |-> RuleStandalone(item.table_name),
     blocked_by |-> _parents_for(store, T, item),
     will_restore_with |-> _will_restore_with(item)] :
    item \in {e \in T : e.status # "PERMANENT"} }

-----------------------------------------------------------------------------
(* Requests and steps *)

Idle == [op |-> "idle"]

\* no restore call is in flight beside the request being served
NoCalls == <<>>

\* an entry captured from an entity type the code base no longer defines
LegacyEntry ==
  [id |-> 1, table_name |-> "LegacyModel", record_id |-> "L1",
   record_data |-> [legacy_id |-> "L1"], deleted_reason |-> "deleted",
   status |-> "VISIBLE", parent |-> 0, origin |-> [legacy_id |-> "L1"]]

\* every row of the world is live; the trash store is empty or holds the
\* entry of a deployment before
Init ==
  /\ world \in Worlds
  /\ live = [k \in world |-> NewRow(k, Null, 0)]
  /\ trash \in {{}, {LegacyEntry}}
  /\ clock = 0
  /\ resp = Idle
  /\ calls = NoCalls

\* a view inserts row k (objects.create)
CreateRow(k, parent) ==
  /\ resp = Idle
  /\ k \in world /\ k \notin DOMAIN live
  /\ clock < MaxClock
  /\ \E row \in {NewRow(k, parent, clock + 1)} :
        /\ \A fk \in ForeignKeys(k[1], row) : RowExists(fk[1], fk[2])
        /\ live' = [q \in DOMAIN live \cup {k} |-> IF q = k THEN row ELSE live[q]]
  /\ clock' = clock + 1
  /\ resp' = [op |-> "create", notified |-> post_save(k[1], k[2], Disconnected)]
  /\ UNCHANGED <<world, trash, calls>>

\* the Django admin changes the parent of a live Attribute
AdminSetAttrParent(k, parent) ==
  /\ resp = Idle
  /\ k \in DOMAIN live /\ k[1] = "Attribute"
  /\ RowExists("Attribute", parent)
  /\ live[k].parent_id # parent
  /\ live' = [live EXCEPT ![k].parent_id = parent]
  /\ resp' = [op |-> "edit"]
  /\ UNCHANGED <<world, trash, clock, calls>>

\* a view deletes row k through the ORM: the collector deletes the rows that
\* cascade from it and post_delete fires for each of them
DeleteRow(k, fault) ==
  /\ resp = Idle
  /\ k \in DOMAIN live
  /\ \E D \in {Collect(live, {k})} :
        /\ Cardinality(trash) + Cardinality(D) <= MaxTrash
        /\ fault \in CaptureFaults(D)
        /\ trash' = CaptureAll(trash, live, SeqOfSet(D), fault)
        /\ live' = [q \in DOMAIN live \ D |-> live[q]]
        /\ resp' = [op |-> "delete", rows |-> D, fault |-> fault]
  /\ UNCHANGED <<world, clock, calls>>

\* the requests explored: up to MaxSeeds entries named by id, in any order
\* the query may return them, or one entity named by table and record id
IdRequests(T) ==
  {s \in UNION {[1..n -> Ids(T)] : n \in 0..MaxSeeds} :
     \A i, j \in DOMAIN s : i # j => s[i] # s[j]}

\* POST /trash/restore
Restore(ids, record_ids) ==
  /\ resp = Idle
  /\ clock < MaxClock
  /\ \E plan \in {RestorePlan(live, trash, SeedsOf(trash, ids, record_ids))} :
       \E fault \in FaultsOf(trash, plan) :
         \E out \in {RestoreRun(live, trash, clock + 1, plan, fault)} :
           /\ live' = out.live
           /\ trash' = out.trash
           /\ clock' = IF out.status = 200 THEN clock + 1 ELSE clock
           /\ resp' = [op |-> "restore", status |-> out.status,
                       body |-> out.body, fault |-> fault]
  /\ UNCHANGED <<world, calls>>

\* the ids a request on one entry may carry: an entry's, none, or an unknown one
ItemIds(T) == Ids(T) \cup {0, NewId(T)}

\* POST /trash/purge
Purge(item_id) ==
  /\ resp = Idle
  /\ \E out \in {permanently_delete_item(trash, item_id)} :
       /\ trash' = out.trash
       /\ resp' = [op |-> "purge", status |-> out.status, id |-> item_id]
  /\ UNCHANGED <<world, live, clock, calls>>

\* POST /trash/visibility
Toggle(item_id, status_flag) ==
  /\ resp = Idle
  /\ \E out \in {recover_item(trash, item_id, status_flag)} :
       /\ trash' = out.trash
       /\ resp' = [op |-> "toggle", status |-> out.status, id |-> item_id,
                   flag |-> status_flag]
  /\ UNCHANGED <<world, live, clock, calls>>

\* GET /trash
List ==
  /\ resp = Idle
  /\ resp' = [op |-> "list", status |-> 200,
              body |-> show_deleted_items(live, trash)]
  /\ UNCHANGED <<world, live, trash, clock, calls>>

\* the Django admin, where RecentlyDeletedItem is registered, links an entry
\* under an older one
AdminLinkParent(id, parent) ==
  /\ resp = Idle
  /\ id \in Ids(trash) /\ parent \in Ids(trash)
  /\ parent < id
  /\ Entry(trash, id).parent # parent
  /\ trash' = {IF e.id = id THEN [e EXCEPT !.parent = parent] ELSE e : e \in trash}
  /\ resp' = [op |-> "edit"]
  /\ UNCHANGED <<world, live, clock, calls>>

\* ... marks an entry PERMANENT
AdminSetStatus(id) ==
  /\ resp = Idle
  /\ id \in Ids(trash)
  /\ Entry(trash, id).status # "PERMANENT"
  /\ trash' = {IF e.id = id THEN [e EXCEPT !.status = "PERMANENT"] ELSE e :
                 e \in trash}
  /\ resp' = [op |-> "edit"]
  /\ UNCHANGED <<world, live, clock, calls>>

\* the response has been sent
Return ==
  /\ resp # Idle
  /\ resp' = Idle
  /\ UNCHANGED <<world, live, trash, clock, calls>>

-----------------------------------------------------------------------------
(* The restore engine under fault-free capture *)

Next ==
  \/ \E k \in world, p \in {Null, "A1"} : CreateRow(k, p)
  \/ \E p \in {"A1", "A2"} : AdminSetAttrParent(A1, p)
  \/ \E k \in world : DeleteRow(k, NoFault)
  \/ \E ids \in IdRequests(trash) : Restore(ids, <<>>)
  \/ \E k \in world : Restore(<<>>, <<k>>)
  \/ \E id \in ItemIds(trash) : Purge(id)
  \/ Return

Spec == Init /\ [][Next]_vars

-----------------------------------------------------------------------------
(* The capture path under faults *)

WorldsCapture == { {P1, A1}, {B1, I1} }

InitCapture ==
  /\ world \in WorldsCapture
  /\ live = [k \in world |-> NewRow(k, Null, 0)]
  /\ trash = {}
  /\ clock = 0
  /\ resp = Idle
  /\ calls = NoCalls

NextCapture ==
  \/ \E k \in world : CreateRow(k, Null)
  \/ \E k \in world : \E fault \in CaptureFaults(Collect(live, {k})) :
       DeleteRow(k, fault)
  \/ \E ids \in IdRequests(trash) : Restore(ids, <<>>)
  \/ \E id \in ItemIds(trash) : Purge(id)
  \/ Return

SpecCapture == InitCapture /\ [][NextCapture]_vars

-----------------------------------------------------------------------------
(* The trash store under listing, toggling, purging and admin edits *)

WorldsTrash == { {P1, A1, A2} }

InitTrash ==
  /\ world \in WorldsTrash
  /\ live = [k \in world |-> NewRow(k, Null, 0)]
  /\ trash \in {{}, {LegacyEntry}}
  /\ clock = 0
  /\ resp = Idle
  /\ calls = NoCalls

NextTrash ==
  \/ \E k \in world : DeleteRow(k, NoFault)
  \/ \E id, parent \in Ids(trash) : AdminLinkParent(id, parent)
  \/ \E id \in Ids(trash) : AdminSetStatus(id)
  \/ \E id \in ItemIds(trash), flag \in {"UNHIDE", "HIDE", "VISIBLE"} :
       Toggle(id, flag)
  \/ \E id \in ItemIds(trash) : Purge(id)
  \/ List
  \/ Return

SpecTrash == InitTrash /\ [][NextTrash]_vars

-----------------------------------------------------------------------------
(* Restores and purges over a trash tree with PERMANENT entries *)

InitTree ==
  /\ world \in { {P1, I1}, {P1, V1} }
  /\ live = [k \in world |-> NewRow(k, Null, 0)]
  /\ trash = {}
  /\ clock = 0
  /\ resp = Idle
  /\ calls = NoCalls

NextTree ==
  \/ \E k \in world : DeleteRow(k, NoFault)
  \/ \E id, parent \in Ids(trash) : AdminLinkParent(id, parent)
  \/ \E id \in Ids(trash) : AdminSetStatus(id)
  \/ \E k \in world : Restore(<<>>, <<k>>)
  \/ \E ids \in IdRequests(trash) : Restore(ids, <<>>)
  \/ \E id \in ItemIds(trash) : Purge(id)
  \/ Return

SpecTree == InitTree /\ [][NextTree]_vars

-----------------------------------------------------------------------------
(* Restores of shopping carts *)

InitCart ==
  /\ world = {P1, CT1, CI1}
  /\ live = [k \in world |-> NewRow(k, Null, 0)]
  /\ trash = {}
  /\ clock = 0
  /\ resp = Idle
  /\ calls = NoCalls

NextCart ==
  \/ \E k \in world : CreateRow(k, Null)
  \/ \E k \in world : DeleteRow(k, NoFault)
  \/ \E ids \in IdRequests(trash) : Restore(ids, <<>>)
  \/ Return

SpecCart == InitCart /\ [][NextCart]_vars

-----------------------------------------------------------------------------
(* Two restore calls in flight.  Each call resolves its closure on the      *)
(* committed stores and keeps the entries in memory, then runs the          *)
(* statements of its transaction one at a time.  The database isolates the  *)
(* transactions: the rows a call has written are its own until it commits,  *)
(* a statement on a row another open transaction has written waits for     *)
(* that transaction, and of two transactions that wait for each other the   *)
(* database aborts one, whose statement raises.                             *)

Calls == {"A", "B"}

Other(c) == CHOOSE o \in Calls : o # c

IdleCall ==
  [pc |-> "idle", status |-> 0, seeds |-> <<>>, ordered |-> <<>>, mem |-> {},
   i |-> 0, pending |-> <<>>, wrote |-> <<>>, mute |-> {}, disc |-> {},
   notified |-> <<>>, error |-> <<>>, gone |-> {}]

InTransaction(c) == calls[c].pc = "pass1"

\* the rows call c reads: the committed rows under the rows it has written
Overlay(store, wrote) ==
  [k \in DOMAIN store \cup DOMAIN wrote |->
     IF k \in DOMAIN wrote THEN wrote[k] ELSE store[k]]

\* the node pass 1 of call c upserts next, and the key of its row
NextNode(c) == Entry(calls[c].mem, calls[c].ordered[calls[c].i])
NextKey(c) == UpsertKey(NextNode(c).table_name, Pass1Payload(NextNode(c)))

\* the next upsert of c waits for the transaction of o
Waits(c, o) ==
  /\ InTransaction(c) /\ InTransaction(o)
  /\ calls[c].i <= Len(calls[c].ordered)
  /\ _model(NextNode(c).table_name) # Null
  /\ NextKey(c) \in DOMAIN calls[o].wrote

\* the call has returned: its transaction is over and the suppression released
Returned(call, status, error) ==
  [call EXCEPT !.pc = "done", !.status = status, !.error = error,
               !.wrote = <<>>, !.disc = {}]

\* RestoreItemsAPIView.post up to the with statement
Plan(c, ids, record_ids) ==
  /\ resp = Idle
  /\ calls[c].pc = "idle"
  /\ \E plan \in {RestorePlan(live, trash, SeedsOf(trash, ids, record_ids))} :
       \E mute_set \in {Touched(trash, plan.body.ordered) \cap MUTE_NOTIFY_MODELS} :
         calls' = [calls EXCEPT ![c] =
           IF plan.status # 0
           THEN Returned([@ EXCEPT !.seeds = plan.body.seeds], plan.status, <<>>)
           ELSE [@ EXCEPT !.pc = "pass1", !.seeds = plan.body.seeds,
                          !.ordered = plan.body.ordered,
                          !.mem = {Entry(trash, n) : n \in Range(plan.body.ordered)},
                          !.i = 1, !.mute = mute_set,
                          !.disc = muted_notifications_for(mute_set)]]
  /\ UNCHANGED <<world, live, trash, clock, resp>>

\* the entries a call holds in memory that a purge, whose response has been
\* sent, has removed from the trash store without their row being live
Gone(mem) ==
  IF resp # Idle THEN {}
  ELSE {e.id : e \in {x \in mem : /\ x.id \notin Ids(trash)
                                  /\ <<x.table_name, x.record_id>> \notin DOMAIN live}}

\* one iteration of pass 1
Upsert(c) ==
  /\ InTransaction(c)
  /\ calls[c].i <= Len(calls[c].ordered)
  /\ ~Waits(c, Other(c))
  /\ \E call \in {calls[c]} :
       \E p1 \in {Pass1(call.mem, <<call.ordered[call.i]>>, 1, 0, clock + 1,
                        Overlay(live, call.wrote), call.pending)} :
         calls' = [calls EXCEPT ![c] =
           IF p1.failed # 0
           THEN Returned(call, 400,
                         IF p1.unknown THEN <<NextNode(c).table_name>>
                         ELSE Label(call.mem, call.ordered[call.i]))
           ELSE [call EXCEPT
                   !.i = call.i + 1,
                   !.gone = IF call.i = 1 THEN Gone(call.mem) ELSE @,
                   !.pending = p1.pending,
                   !.wrote = [k \in DOMAIN call.wrote \cup {NextKey(c)} |->
                                p1.store[k]],
                   !.notified = call.notified \o
                                  post_save(NextNode(c).table_name,
                                            NextKey(c)[2], Disconnected)]]
  /\ UNCHANGED <<world, live, trash, clock, resp>>

\* the database ends the wait of two transactions for each other by aborting
\* the one of c: its update_or_create raises, which pass 1 turns into a
\* rollback and a 400
Deadlock(c) ==
  /\ Waits(c, Other(c)) /\ Waits(Other(c), c)
  /\ calls' = [calls EXCEPT ![c] = Returned(@, 400, <<"deadlock">>)]
  /\ UNCHANGED <<world, live, trash, clock, resp>>

\* pass 2, pass 3, commit and response
Finish(c) ==
  /\ InTransaction(c)
  /\ calls[c].i > Len(calls[c].ordered)
  /\ \E call \in {calls[c]} :
       \E p2 \in {Pass2(call.pending, 1, 0, Overlay(live, call.wrote))} :
         /\ live' = p2.store
         /\ trash' = Pass3(trash, Reverse(call.ordered), 1, 0)
         /\ calls' = [calls EXCEPT ![c] = Returned(call, 200, <<>>)]
  /\ UNCHANGED <<world, clock, resp>>

\* the requests by natural key: one or two rows of the world, in the order
\* the client names them
RecordRequests ==
  {s \in UNION {[1..n -> world] : n \in 1..MaxSeeds} :
     \A i, j \in DOMAIN s : i # j => s[i] # s[j]}

WorldsRace == { {P1, CT1}, {P1, V1} }

InitRace ==
  /\ world \in WorldsRace
  /\ live = [k \in world |-> NewRow(k, Null, 0)]
  /\ trash = {}
  /\ clock = 0
  /\ resp = Idle
  /\ calls = [c \in Calls |-> IdleCall]

\* rows are deleted before the calls arrive; a purge is served at any moment
NextRace ==
  \/ \E k \in world : (\A c \in Calls : calls[c].pc = "idle") /\ DeleteRow(k, NoFault)
  \/ \E id \in Ids(trash) : Purge(id)
  \/ Return
  \/ \E c \in Calls : \E record_ids \in RecordRequests : Plan(c, <<>>, record_ids)
  \/ \E c \in Calls : Upsert(c)
  \/ \E c \in Calls : Deadlock(c)
  \/ \E c \in Calls : Finish(c)

SpecRace == InitRace /\ [][NextRace]_vars

-----------------------------------------------------------------------------
(* Deletions inside an atomic view.  live and trash are the committed      *)
(* tables; the open transaction of the view holds the tables as its own     *)
(* statements have left them.  post_delete receivers run on the connection  *)
(* of the deletion, so the entries they create belong to its transaction.   *)

\* a capture that writes its entries through a connection of its own
atomic_exit_CaptureOutside(committed, working, commit) ==
  [live |-> IF commit THEN working.live ELSE committed.live,
   trash |-> working.trash]

\* leaving transaction.atomic(): the committed tables after a commit or a
\* rollback
atomic_exit(committed, working, commit) ==
  IF commit THEN working ELSE committed

\* a view decorated with transaction.atomic is entered
AtomicEnter ==
  /\ resp = Idle
  /\ resp' = [op |-> "atomic", live |-> live, trash |-> trash,
              rows |-> {}, faults |-> {}]
  /\ UNCHANGED <<world, live, trash, clock, calls>>

\* the view deletes row k through the ORM
AtomicDelete(k) ==
  /\ resp.op = "atomic"
  /\ k \in DOMAIN resp.live
  /\ \E D \in {Collect(resp.live, {k})} : \E fault \in CaptureFaults(D) :
        /\ Cardinality(resp.trash) + Cardinality(D) <= MaxTrash
        /\ resp' = [resp EXCEPT
                      !.trash = CaptureAll(resp.trash, resp.live, SeqOfSet(D), fault),
                      !.live = [q \in DOMAIN resp.live \ D |-> resp.live[q]],
                      !.rows = resp.rows \cup D,
                      !.faults = resp.faults \cup {fault}]
  /\ UNCHANGED <<world, live, trash, clock, calls>>

\* the view returns (commit) or an exception leaves it (rollback)
AtomicExit(commit) ==
  /\ resp.op = "atomic"
  /\ \E out \in {atomic_exit([live |-> live, trash |-> trash],
                             [live |-> resp.live, trash |-> resp.trash], commit)} :
       /\ live' = out.live
       /\ trash' = out.trash
  /\ resp' = [op |-> IF commit THEN "commit" ELSE "rollback",
              rows |-> resp.rows, faults |-> resp.faults]
  /\ UNCHANGED <<world, clock, calls>>

InitAtomic ==
  /\ world \in WorldsCapture
  /\ live = [k \in world |-> NewRow(k, Null, 0)]
  /\ trash = {}
  /\ clock = 0
  /\ resp = Idle
  /\ calls = NoCalls

NextAtomic ==
  \/ AtomicEnter
  \/ \E k \in world : AtomicDelete(k)
  \/ \E commit \in BOOLEAN : AtomicExit(commit)
  \/ Return

SpecAtomic == InitAtomic /\ [][NextAtomic]_vars

-----------------------------------------------------------------------------
(* Every operation that reads a snapshot, on a Product with an Attribute   *)
(* and its option                                                          *)

InitSnapshot ==
  /\ world \in WorldsTrash
  /\ live = [k \in world |-> NewRow(k, Null, 0)]
  /\ trash = {}
  /\ clock = 0
  /\ resp = Idle
  /\ calls = NoCalls

NextSnapshot ==
  \/ AdminSetAttrParent(A2, "A1")
  \/ \E k \in world : DeleteRow(k, NoFault)
  \/ \E ids \in IdRequests(trash) : Restore(ids, <<>>)
  \/ \E id \in Ids(trash) : Toggle(id, "HIDE")
  \/ \E id \in Ids(trash) : Purge(id)
  \/ List
  \/ Return

SpecSnapshot == InitSnapshot /\ [][NextSnapshot]_vars

-----------------------------------------------------------------------------
(* Properties.  A property of one call is an action property over the step *)
(* that performs it: the unprimed variables are the stores before the      *)
(* call, resp' is its response.                                            *)

RestoreStep == resp = Idle /\ resp'.op = "restore"

\* the parents the rule of entry e produces, as <<model, key value>>
ParentsOf(e) ==
  { <<tup[1], tup[2]>> : tup \in Range(ParentTuples(e.table_name, e.record_data)) }

\* parent P is neither a live row nor present in the trash store
MissingParent(store, T, P) ==
  /\ <<P[1], Str(P[2])>> \notin DOMAIN store
  /\ ~\E x \in T : x.table_name = P[1] /\ x.record_id = Str(P[2])

MissingParents(store, T, e) ==
  { P \in ParentsOf(e) : MissingParent(store, T, P) }

\* the entry of a blocked_by list for parent P
BlockedBy(P) ==
  [model |-> P[1], id |-> IF P[2] = Null THEN "" ELSE Str(P[2]),
   reason |-> "missing-parent"]

\* seed number i of the request is non-standalone and misses a parent
BlockedSeed(store, T, seeds, i) ==
  /\ ~RuleStandalone(Entry(T, seeds[i]).table_name)
  /\ MissingParents(store, T, Entry(T, seeds[i])) # {}

\* C1 as stated: a restore request containing a non-standalone seed with a
\* missing parent P is rejected with a conflict whose blocked_by contains P,
\* for every such seed of the request, and mutates nothing.
C1_BlockingEverySeed ==
  [][RestoreStep =>
       \A i \in DOMAIN resp'.body.seeds :
         BlockedSeed(live, trash, resp'.body.seeds, i) =>
           /\ resp'.status = 409
           /\ \A P \in MissingParents(live, trash, Entry(trash, resp'.body.seeds[i])) :
                BlockedBy(P) \in Range(resp'.body.blocked_by)
           /\ live' = live /\ trash' = trash]_vars

\* C1 amended: a restore request containing a non-standalone seed with a
\* missing parent is rejected with a conflict and mutates nothing, also when
\* other seeds are restorable; blocked_by contains the missing parents of the
\* first such seed in seed order (the loop returns at the first blocked seed).
C1_Blocking ==
  [][RestoreStep =>
       \A seeds \in {resp'.body.seeds} :
         \A B \in {{i \in DOMAIN seeds : BlockedSeed(live, trash, seeds, i)}} :
           B # {} =>
             /\ resp'.status = 409
             /\ live' = live /\ trash' = trash
             /\ \A i \in B :
                  (\A j \in B : i <= j) =>
                    \A P \in MissingParents(live, trash, Entry(trash, seeds[i])) :
                      BlockedBy(P) \in Range(resp'.body.blocked_by)]_vars

\* a request of two seeds, one restorable and one blocked, has been rejected
C1_Witness ==
  /\ resp.op = "restore" /\ resp.status = 409
  /\ Len(resp.body.seeds) = 2
  /\ resp.body.blocked_by # <<>>
  /\ \E i, j \in DOMAIN resp.body.seeds :
       /\ BlockedSeed(live, trash, resp.body.seeds, i)
       /\ ~BlockedSeed(live, trash, resp.body.seeds, j)
       /\ Blockers(live, trash, NodesOfSeed(live, trash, resp.body.seeds[j])) = <<>>

\* the positions of pass 1 that fail: the injected one and the unknown models
Pass1Failures(T, ordered, fault) ==
  { j \in DOMAIN ordered :
      \/ fault = <<1, j>>
      \/ Entry(T, ordered[j]).table_name \notin MODELS }

\* C2: if an upsert of pass 1 (unknown model included) or a link update of
\* pass 2 fails, the live store and the trash store are as before the call
\* and the response names the failing entity or row.
C2_Atomicity ==
  [][RestoreStep /\ resp'.body.ordered # <<>> =>
       \A ordered \in {resp'.body.ordered} :
         \A F \in {Pass1Failures(trash, ordered, resp'.fault)} :
           /\ F # {} =>
                /\ resp'.status = 400
                /\ live' = live /\ trash' = trash
                /\ \A j \in F :
                     (\A k \in F : j <= k) =>
                       resp'.body.error \in
                         { Label(trash, ordered[j]),
                           <<Entry(trash, ordered[j]).table_name>> }
           /\ (F = {} /\ resp'.fault[1] = 2) =>
                /\ resp'.status = 400
                /\ live' = live /\ trash' = trash
                /\ \E n \in Range(ordered) :
                     /\ Entry(trash, n).table_name = "Attribute"
                     /\ Truthy(Get(Entry(trash, n).record_data, "parent_id"))
                     /\ resp'.body.error = <<"Attribute", Entry(trash, n).record_id>>]_vars

\* an upsert failed after another row had been written
C2_Witness ==
  /\ resp.op = "restore" /\ resp.status = 400
  /\ resp.fault[1] = 1
  /\ Len(resp.body.writes) >= 1
  /\ resp.body.error # <<>>

\* node p is declared as a parent by the rule of node c (table_name and
\* record_id match)
DeclaresParent(T, p, c) ==
  \E P \in ParentsOf(Entry(T, c)) :
    /\ Truthy(P[2])
    /\ P[1] = Entry(T, p).table_name
    /\ Str(P[2]) = Entry(T, p).record_id

\* position of node n in the upsert order
Pos(ordered, n) == CHOOSE i \in DOMAIN ordered : ordered[i] = n

ParentsFirst(T, ordered) ==
  \A p, c \in Range(ordered) :
    (p # c /\ DeclaresParent(T, p, c)) => Pos(ordered, p) < Pos(ordered, c)

RECURSIVE AncestorsIn(_, _, _)
\* the nodes reachable from S over declared-parent edges inside nodes
AncestorsIn(T, nodes, S) ==
  LET more == {p \in nodes : \E c \in S : DeclaresParent(T, p, c)} \ S
  IN IF more = {} THEN S ELSE AncestorsIn(T, nodes, S \cup more)

\* some node is its own ancestor
Cyclic(T, nodes) ==
  \E n \in nodes :
    \E p \in nodes : DeclaresParent(T, p, n) /\ n \in AncestorsIn(T, nodes, {p})

\* no two nodes are entries of the same (table_name, record_id)
UniqueKeys(T, nodes) ==
  \A m, n \in nodes : Label(T, m) = Label(T, n) => m = n

\* C3 as stated: in every restore that reaches pass 1 every declared parent
\* is upserted before its child, for every closure the resolver produces,
\* closures with self-referring Attributes included.
C3_ParentsFirstAlways ==
  [][RestoreStep /\ resp'.body.ordered # <<>> =>
       ParentsFirst(trash, resp'.body.ordered)]_vars

\* C3 amended: every declared parent is upserted before its child when the
\* declared-parent graph of the closure has no cycle and no two closure
\* nodes are entries of the same entity; with a cycle (an Attribute whose
\* parent_id refers to itself or back) the fallback order gives no such
\* guarantee.
C3_Topological ==
  [][RestoreStep /\ resp'.body.ordered # <<>> =>
       \A ordered \in {resp'.body.ordered} :
         (UniqueKeys(trash, Range(ordered)) /\ ~Cyclic(trash, Range(ordered)))
           => ParentsFirst(trash, ordered)]_vars

\* a three-level closure seeded at its lowest level was restored
C3_Witness ==
  /\ resp.op = "restore" /\ resp.status = 200
  /\ resp.body.restored =
       << <<"Product", "P1">>, <<"ProductVariant", "V1">>,
          <<"VariantCombination", "K1">> >>
  /\ resp.body.nodes[1] = resp.body.ordered[3]

\* entry c is a co-restore child of entry p: its table is in the corestore
\* list of p's rule and its snapshot foreign key equals p's record id
CoChild(p, c) ==
  \E r \in Range(RuleCorestore(p.table_name)) :
    /\ c.table_name = r[1]
    /\ r[2] \in DOMAIN c.record_data
    /\ Str(c.record_data[r[2]]) = p.record_id

RECURSIVE CoReach(_, _)
\* the entries reachable from the entries S over co-restore edges
CoReach(T, S) ==
  LET more == {c \in T : \E p \in S : CoChild(p, c)} \ S
  IN IF more = {} THEN S ELSE CoReach(T, S \cup more)

\* C4 as stated: when a restore succeeds, every trash entry reachable from a
\* seed over co-restore edges is restored in the same call and removed from
\* the trash store.
C4_ClosureComplete ==
  [][RestoreStep /\ resp'.status = 200 =>
       \A s \in Range(resp'.body.seeds) :
         \A c \in CoReach(trash, {Entry(trash, s)}) :
           /\ c \notin trash'
           /\ <<c.table_name, c.record_id>> \in Range(resp'.body.restored)]_vars

\* the Attribute nodes of a closure whose snapshot has a parent_id
LinkedAttributes(T, ordered) ==
  { n \in Range(ordered) :
      /\ Entry(T, n).table_name = "Attribute"
      /\ Get(Entry(T, n).record_data, "parent_id") # Null }

\* the live Attribute of node n points to the parent of n's snapshot, and
\* that parent is live
LinkRestored(store, e) ==
  /\ <<"Attribute", e.record_id>> \in DOMAIN store
  /\ store[<<"Attribute", e.record_id>>].parent_id = Str(e.record_data.parent_id)
  /\ <<"Attribute", Str(e.record_data.parent_id)>> \in DOMAIN store

\* pass 1 writes no Attribute with a parent_id
Pass1Unlinked(writes) ==
  \A i \in DOMAIN writes :
    writes[i].model = "Attribute" => Get(writes[i].payload, "parent_id") = Null

\* C5 as stated: pass 1 writes no Attribute with a non-null parent_id, and
\* after pass 2 of a successful restore every restored Attribute whose
\* snapshot has a parent_id has that live parent_id, the parent being live.
C5_EveryLinkRestored ==
  [][RestoreStep =>
       /\ Pass1Unlinked(resp'.body.writes)
       /\ resp'.status = 200 =>
            \A n \in LinkedAttributes(trash, resp'.body.ordered) :
              LinkRestored(live', Entry(trash, n))]_vars

\* C5 amended: pass 1 writes no Attribute with a non-null parent_id; after
\* pass 2 of a successful restore every restored Attribute whose snapshot
\* has a parent_id and that is the closure's only entry for its attr_id has
\* that live parent_id, the parent being live.  Of several entries of one
\* Attribute, the link of the one upserted last is applied.
C5_SelfReference ==
  [][RestoreStep =>
       /\ Pass1Unlinked(resp'.body.writes)
       /\ resp'.status = 200 =>
            \A ordered \in {resp'.body.ordered} :
              \A n \in LinkedAttributes(trash, ordered) :
                (\A m \in Range(ordered) :
                   Label(trash, m) = Label(trash, n) => m = n)
                  => LinkRestored(live', Entry(trash, n))]_vars

\* an option was restored together with its parent Attribute and linked
C5_Witness ==
  /\ resp.op = "restore" /\ resp.status = 200
  /\ <<"A2", "A1">> \in Range(resp.body.links)
  /\ <<"Attribute", "A1">> \in Range(resp.body.restored)
  /\ live[A2].parent_id = "A1"

\* entry e is the only entry of a standalone entity without parents and
\* co-restore children, captured from a row, and the row is not live
RoundTripCase(store, T, e) ==
  /\ RuleStandalone(e.table_name)
  /\ RuleParents(e.table_name) = <<>>
  /\ RuleCorestore(e.table_name) = <<>>
  /\ e.table_name \in DOMAIN SCHEMA
  /\ <<e.table_name, e.record_id>> \notin DOMAIN store
  /\ \A x \in T : Label(T, x.id) = Label(T, e.id) => x = e

\* C6 as stated: deleting a standalone row and restoring its entry yields a
\* live row with the same primary key whose every field stored in the
\* snapshot equals the value before the deletion, and no entry is left.
C6_RoundTrip ==
  [][RestoreStep /\ resp'.status = 200 /\ Len(resp'.body.seeds) = 1 =>
       \A e \in {Entry(trash, resp'.body.seeds[1])} :
         RoundTripCase(live, trash, e) =>
           /\ <<e.table_name, e.record_id>> \in DOMAIN live'
           /\ \A a \in DOMAIN e.record_data :
                live'[<<e.table_name, e.record_id>>][a] = e.origin[a]
           /\ \A x \in trash' : <<x.table_name, x.record_id>> #
                                  <<e.table_name, e.record_id>>]_vars

RECURSIVE Under(_, _, _)
\* entry x is entry t or is linked, through parents, below it
Under(T, x, t) ==
  \/ x = t
  \/ /\ Entry(T, x).parent \in Ids(T)
     /\ Under(T, Entry(T, x).parent, t)

\* C7: a successful visibility toggle on entry t sets the requested status
\* on t and on every entry below t in the trash tree and leaves every other
\* entry as it is; a successful purge of t removes t and every entry below
\* it and leaves every other entry in the store, unchanged.
C7_TreePropagation ==
  [][resp = Idle /\ resp'.op \in {"toggle", "purge"} /\ resp'.status = 200 =>
       /\ resp'.op = "toggle" =>
            trash' = { IF Under(trash, e.id, resp'.id)
                       THEN [e EXCEPT !.status = resp'.flag] ELSE e : e \in trash }
       /\ resp'.op = "purge" =>
            trash' = { e \in trash : ~Under(trash, e.id, resp'.id) }]_vars

\* an entry with a grandchild was toggled and another entry kept its status
C7_Witness ==
  /\ resp.op = "toggle" /\ resp.status = 200
  /\ \E c, g, o \in trash :
       /\ c.parent = resp.id /\ g.parent = c.id
       /\ g.status = resp.flag
       /\ ~Under(trash, o.id, resp.id) /\ o.status # resp.flag

DeleteStep == resp = Idle /\ resp'.op = "delete"

\* the entries a step added for row k
NewFor(T, T2, k) ==
  { e \in T2 \ T : e.table_name = k[1] /\ e.record_id = k[2] }

Deleted(store, store2, D) ==
  /\ DOMAIN store2 = DOMAIN store \ D
  /\ \A k \in DOMAIN store2 : store2[k] = store[k]

\* entry e holds null for field number i of row k and the serialised value
\* of every other field
NullForField(e, k, row, i) ==
  LET fields == ConcreteFields(k[1])
  IN /\ e.record_data[fields[i].name] = Null
     /\ \A j \in DOMAIN fields \ {i} :
          e.record_data[fields[j].att] = _to_jsonable(row[fields[j].att])

\* entry e is the fallback entry of row k
IsFallback(e, k, row) ==
  e.record_data = [pk |-> k[2], repr |-> Repr(k[1], row)]

Listed(store, T, e, item) ==
  /\ item.table = e.table_name /\ item.record_id = e.record_id
  /\ item.record_data = e.record_data /\ item.status = e.status
  /\ Range(item.blocked_by) = { BlockedBy(P) : P \in MissingParents(store, T, e) }
  /\ item.will_restore_with =
       IF e.table_name \in DOMAIN DEPENDENCY_RULES
       THEN [i \in DOMAIN DEPENDENCY_RULES[e.table_name].corestore |->
               [model |-> DEPENDENCY_RULES[e.table_name].corestore[i][1],
                by |-> DEPENDENCY_RULES[e.table_name].corestore[i][2],
                parent_field |-> DEPENDENCY_RULES[e.table_name].corestore[i][3]]]
       ELSE <<>>
  /\ item.standalone =
       IF e.table_name \in DOMAIN DEPENDENCY_RULES
       THEN DEPENDENCY_RULES[e.table_name].standalone ELSE TRUE

\* C10: the listing returns one item for every trash entry whose status is
\* not PERMANENT and none for the others; the item's blocked_by holds
\* exactly the parents of the entry's rule that are neither live nor in the
\* trash store, will_restore_with is the rule's corestore list, standalone
\* the rule's flag, true without a rule; no trash entry and no live row
\* changes.
C10_Listing ==
  [][resp = Idle /\ resp'.op = "list" =>
       /\ { item.id : item \in resp'.body } =
            { e.id : e \in { x \in trash : x.status # "PERMANENT" } }
       /\ Cardinality(resp'.body) =
            Cardinality({ x \in trash : x.status # "PERMANENT" })
       /\ \A item \in resp'.body :
            Listed(live, trash, Entry(trash, item.id), item)
       /\ trash' = trash /\ live' = live]_vars

\* a listing left out a PERMANENT entry and showed a blocked entry, an
\* entry whose parent is itself in trash and an entry without a rule
C10_Witness ==
  /\ resp.op = "list"
  /\ \E e \in trash : e.status = "PERMANENT" /\ e.id \notin {i.id : i \in resp.body}
  /\ \E item \in resp.body : item.blocked_by # <<>>
  /\ \E item \in resp.body : item.table = "LegacyModel" /\ item.standalone

\* C11 as stated: in every reachable state the status of every trash entry
\* is one of VISIBLE, HIDDEN, PERMANENT.
C11_StatusDomain ==
  \A e \in trash : e.status \in {"VISIBLE", "HIDDEN", "PERMANENT"}

TrashOnlyStep == resp = Idle /\ resp'.op \in {"toggle", "purge"}

\* C19: a visibility toggle and a permanent delete, whatever they answer,
\* leave every live row as it is; a toggle keeps every trash entry and
\* changes no field of it but status.
C19_TrashOnly ==
  [][TrashOnlyStep =>
       /\ live' = live
       /\ resp'.op = "toggle" =>
            /\ Ids(trash') = Ids(trash)
            /\ Cardinality(trash') = Cardinality(trash)
            /\ \A e \in trash :
                 Entry(trash', e.id) = [e EXCEPT !.status = Entry(trash', e.id).status]]_vars

\* a toggle changed the status of an entry while rows were live, and a purge
\* was refused
C19_Witness ==
  /\ resp.op = "toggle" /\ resp.status = 200
  /\ DOMAIN live # {}
  /\ \E e \in trash : e.id = resp.id /\ e.status = resp.flag
                      /\ e.record_data # EmptyDict

BlockedNodes(store, T, nodes) ==
  { n \in Range(nodes) :
      /\ ~RuleStandalone(Entry(T, n).table_name)
      /\ MissingParents(store, T, Entry(T, n)) # {} }

\* C12: when no seed is blocked and a non-standalone node of the unioned,
\* de-duplicated closure has a parent that is neither live nor in the trash
\* store, the restore is rejected with a conflict that lists every such node
\* with its missing parents, and no live row and no trash entry changes.
C12_FinalGuard ==
  [][( /\ RestoreStep
       /\ \A i \in DOMAIN resp'.body.seeds :
            ~BlockedSeed(live, trash, resp'.body.seeds, i) ) =>
       \A bad \in {BlockedNodes(live, trash, resp'.body.nodes)} :
         bad # {} =>
           /\ resp'.status = 409
           /\ live' = live /\ trash' = trash
           /\ { d.item : d \in Range(resp'.body.details) } =
                { Label(trash, n) : n \in bad }
           /\ \A d \in Range(resp'.body.details) :
                \E n \in bad :
                  /\ d.item = Label(trash, n)
                  /\ Range(d.blocked_by) =
                       { BlockedBy(P) : P \in MissingParents(live, trash, Entry(trash, n)) }]_vars

\* a standalone seed was refused for a co-restore child that misses another
\* parent
C12_Witness ==
  /\ resp.op = "restore" /\ resp.status = 409
  /\ Len(resp.body.seeds) = 1
  /\ RuleStandalone(Entry(trash, resp.body.seeds[1]).table_name)
  /\ resp.body.details # <<>>
  /\ \A d \in Range(resp.body.details) : d.item # Label(trash, resp.body.seeds[1])

\* the rows of the restored list are live in store
RestoredLive(store, restored) ==
  \A i \in DOMAIN restored : <<restored[i][1], restored[i][2]>> \in DOMAIN store

\* the closure entries whose delete in pass 3 was refused
KeptBy(ordered, fault) ==
  IF fault[1] = 3 THEN {Reverse(ordered)[fault[2]]} ELSE {}

UnionOfClosures(store, T, seeds) ==
  UNION { Range(NodesOfSeed(store, T, seeds[i])) : i \in DOMAIN seeds }

NoRepeat(s) == \A i, j \in DOMAIN s : s[i] = s[j] => i = j

\* C14: when a restore passes the final guard, every trash entry of the
\* union of the seeds' closures appears exactly once in the restore order;
\* when it succeeds, pass 1 upserts the entries of the order one by one, the
\* restored list names them one by one, and every parent a restored entry
\* refers to is live, also when it was pulled in for another seed.
C14_MultiSeedUnion ==
  [][RestoreStep /\ resp'.body.ordered # <<>> =>
       \A ordered \in {resp'.body.ordered} :
         /\ NoRepeat(ordered)
         /\ Range(ordered) = UnionOfClosures(live, trash, resp'.body.seeds)
         /\ resp'.status = 200 =>
              /\ Len(resp'.body.writes) = Len(ordered)
              /\ Len(resp'.body.restored) = Len(ordered)
              /\ \A i \in DOMAIN ordered :
                   /\ resp'.body.writes[i].model = Entry(trash, ordered[i]).table_name
                   /\ resp'.body.restored[i] = Label(trash, ordered[i])
                   /\ \A P \in ParentsOf(Entry(trash, ordered[i])) :
                        Truthy(P[2]) => <<P[1], Str(P[2])>> \in DOMAIN live']_vars

\* a ProductVariant and an Attribute were restored in one request together
\* with their Product, which neither seed names
C14_Witness ==
  /\ resp.op = "restore" /\ resp.status = 200
  /\ Len(resp.body.seeds) = 2
  /\ { resp.body.restored[Pos(resp.body.ordered, resp.body.seeds[i])][1] :
         i \in {1, 2} } = {"ProductVariant", "Attribute"}
  /\ P1 \in Range(resp.body.restored)
  /\ resp.body.restored_count = 4

\* C15: a restore that enters its transaction holds the notification
\* receivers of exactly the touched sensitive types (Cart, CartItem)
\* disconnected while the transaction runs, emits no notification for a Cart
\* or CartItem row, leaves nothing disconnected when it returns on any path,
\* and reports the touched sensitive types as muted when it succeeds.
C15_ScopedSuppression ==
  [][RestoreStep /\ resp'.body.ordered # <<>> =>
       \A mute_set \in {Touched(trash, resp'.body.ordered) \cap MUTE_NOTIFY_MODELS} :
         /\ resp'.body.disconnected = mute_set
         /\ \A i \in DOMAIN resp'.body.notified :
              resp'.body.notified[i][1] \notin MUTE_NOTIFY_MODELS
         /\ Disconnected' = {}
         /\ resp'.status = 200 => resp'.body.muted = mute_set]_vars

\* what the restore does for the sensitive types: it reports them as muted
\* and no receiver exists that would notify for them
C15_NothingToMute ==
  [][RestoreStep /\ resp'.body.ordered # <<>> =>
       \A mute_set \in {Touched(trash, resp'.body.ordered) \cap MUTE_NOTIFY_MODELS} :
         /\ resp'.body.disconnected = {}
         /\ \A i \in DOMAIN resp'.body.notified :
              resp'.body.notified[i][1] \notin MUTE_NOTIFY_MODELS
         /\ resp'.status = 200 => resp'.body.muted = mute_set]_vars

\* call c has just upserted a row
WriteStep(c) ==
  /\ calls[c].pc = "pass1" /\ calls'[c].pc = "pass1"
  /\ calls'[c].i = calls[c].i + 1

\* C16: every row a restore call writes of a type it has not muted and that
\* has a notification receiver (Product, Category, SubCategory, BlogPost)
\* emits its notification, whatever the other call in flight has muted; a
\* call never disconnects more than the sensitive types it touches.
C16_SuppressionIsolation ==
  [][\A c \in Calls :
       /\ calls'[c].disc \subseteq calls'[c].mute
       /\ WriteStep(c) =>
            \A M \in {NextNode(c).table_name} :
              M \notin calls[c].mute /\ M \in DOMAIN RECEIVERS =>
                calls'[c].notified =
                  Append(calls[c].notified, <<RECEIVERS[M], NextNode(c).record_id>>)]_vars

\* B has written a Product, with its notification, while A is inside a
\* transaction for which Cart is muted
C16_Witness ==
  /\ InTransaction("A") /\ "Cart" \in calls["A"].mute
  /\ calls["B"].pc = "pass1" /\ calls["B"].i = 2
  /\ "Cart" \notin calls["B"].mute
  /\ calls["B"].notified = << <<"Product", "P1">> >>

\* both calls have returned after resolving closures that share an entry
OverlapReturned ==
  /\ \A c \in Calls : calls[c].pc = "done" /\ calls[c].ordered # <<>>
  /\ Range(calls["A"].ordered) \cap Range(calls["B"].ordered) # {}

\* C17: when two restore calls with overlapping closures have both
\* returned, both have succeeded, every entity of the overlap is a live row
\* and no trash entry of the overlap remains.
C17_OverlappingRestores ==
  OverlapReturned =>
    /\ \A c \in Calls : calls[c].status = 200
    /\ \A e \in calls["A"].mem \cap calls["B"].mem :
         /\ <<e.table_name, e.record_id>> \in DOMAIN live
         /\ e.id \notin Ids(trash)

\* what holds of two overlapping calls: a call fails only when the database
\* aborted it, at most one of the two does, and the overlap is restored and
\* consumed by the other
C17_OneSurvives ==
  OverlapReturned =>
    /\ \A c \in Calls : calls[c].status = 200 \/ calls[c].error = <<"deadlock">>
    /\ \E c \in Calls : calls[c].status = 200
    /\ \A e \in calls["A"].mem \cap calls["B"].mem :
         /\ <<e.table_name, e.record_id>> \in DOMAIN live
         /\ e.id \notin Ids(trash)

\* the entries of T2 that T does not hold, for row k
AddedFor(T, T2, k) ==
  {e \in T2 \ T : e.table_name = k[1] /\ e.record_id = k[2]}

\* the rows whose capture lost both the entry and the fallback entry
Uncaptured(faults) == {f.row : f \in {g \in faults : g.kind = "both"}}

C21_SnapshotImmutable ==
  [][\A e \in trash : \A f \in trash' :
       e.id = f.id => f.record_data = e.record_data /\ f.origin = e.origin]_vars

\* a restore of an option Attribute failed after pass 1 wrote it without
\* parent_id, and the entry is still stored with its parent_id
C21_Witness ==
  /\ resp.op = "restore" /\ resp.status = 400
  /\ \E i \in DOMAIN resp.body.writes :
       /\ resp.body.writes[i].model = "Attribute"
       /\ "attr_id" \in DOMAIN resp.body.writes[i].payload
       /\ resp.body.writes[i].payload.attr_id = "A2"
       /\ "parent_id" \notin DOMAIN resp.body.writes[i].payload
  /\ \E e \in trash : e.table_name = "Attribute" /\ e.record_id = "A2"
                        /\ Get(e.record_data, "parent_id") = "A1"

\* the closure nodes that are not seeds and not co-restore descendants of a
\* seed: the parents the upward closure pulled in
PulledIn(T, seeds, ordered) ==
  {n \in Range(ordered) :
     Entry(T, n) \notin CoReach(T, {Entry(T, s) : s \in Range(seeds)})}

\* C22: when a restore succeeds with no statement refused, no trash entry
\* is left that is a co-restore child of an entity the call made live, whether that entity was pulled in
\* by the upward closure or not.
C22_PulledInChildren ==
  [][RestoreStep /\ resp'.status = 200 /\ resp'.fault = <<0, 0>> =>
       /\ \A n \in PulledIn(trash, resp'.body.seeds, resp'.body.ordered) :
            \A c \in trash' : ~CoChild(Entry(trash, n), c)
       /\ \A n \in Range(resp'.body.ordered) :
            \A c \in trash' : ~CoChild(Entry(trash, n), c)]_vars

\* parent P is a member of the closure: one of its nodes is an entry of P
InClosure(T, ordered, P) ==
  \E m \in Range(ordered) :
    Entry(T, m).table_name = P[1] /\ Entry(T, m).record_id = Str(P[2])

\* C23: when a restore passes the final guard and enters pass 1, every parent
\* that the rule of any closure node produces is a live row or a trash entry
\* that is a node of the closure, so the property holds along every parent
\* chain; when the restore succeeds all these parents are live.
C23_ParentClosed ==
  [][RestoreStep /\ resp'.body.ordered # <<>> =>
       \A n \in Range(resp'.body.ordered) :
         \A P \in ParentsOf(Entry(trash, n)) :
           /\ <<P[1], Str(P[2])>> \in DOMAIN live
                \/ InClosure(trash, resp'.body.ordered, P)
           /\ resp'.status = 200 => <<P[1], Str(P[2])>> \in DOMAIN live']_vars

\* a restore seeded with an option Attribute alone brought back its parent
\* Attribute and their Product
C23_Witness ==
  /\ resp.op = "restore" /\ resp.status = 200
  /\ Len(resp.body.seeds) = 1
  /\ resp.body.restored[Pos(resp.body.ordered, resp.body.seeds[1])][1] = "Attribute"
  /\ resp.body.links # <<>>
  /\ resp.body.restored_count = 3
  /\ P1 \in Range(resp.body.restored)

\* C24 as stated: the downward closure of a restore holds every trash entry
\* of a co-restore child table whose snapshot foreign key, compared as a
\* string, equals the record id of a seed, also when the snapshot stores the
\* key as a number (FirstCarouselImage.carousel_id).
C24_StringComparedChildren ==
  [][RestoreStep /\ resp'.body.nodes # <<>> =>
       \A s \in Range(resp'.body.seeds) :
         \A c \in trash :
           CoChild(Entry(trash, s), c) => c.id \in Range(resp'.body.nodes)]_vars

\* Kahn's algorithm orders fewer nodes than the closure has
FallbackTaken(T, all_nodes) ==
  \E g \in {<<Graph(T, all_nodes), Indeg(T, all_nodes)>>} :
    LET Zero(n) == g[2][n] = 0
    IN Len(Kahn(g[1], g[2], SelectSeq(all_nodes, Zero), <<>>)) # Len(all_nodes)

\* C25: when Kahn's algorithm orders fewer nodes than the closure has, the
\* restore goes on: the upsert order holds every closure node exactly once,
\* the number of parent rules of the nodes' entity types never decreases
\* along it, and the upserts follow it; the cycle is no reason to reject:
\* unless an upsert or a link update fails for a reason of its own (a model
\* that no longer exists, a statement the database refuses), the call
\* answers 200 after one upsert per node.
C25_CycleFallback ==
  [][RestoreStep /\ resp'.body.ordered # <<>>
       /\ FallbackTaken(trash, resp'.body.nodes) =>
       \A ordered \in {resp'.body.ordered} :
         /\ Len(ordered) = Len(resp'.body.nodes)
         /\ Range(ordered) = Range(resp'.body.nodes)
         /\ \A i, j \in DOMAIN ordered :
              i < j => Weight(trash, ordered[i]) <= Weight(trash, ordered[j])
         /\ Len(resp'.body.writes) <= Len(ordered)
         /\ \A i \in DOMAIN resp'.body.writes :
              /\ resp'.body.writes[i].model = Entry(trash, ordered[i]).table_name
              /\ UpsertKey(resp'.body.writes[i].model, resp'.body.writes[i].payload)
                   = Label(trash, ordered[i])
         /\ (Pass1Failures(trash, ordered, resp'.fault) = {} /\ resp'.fault[1] # 2) =>
              /\ resp'.status = 200
              /\ Len(resp'.body.writes) = Len(ordered)
              /\ \A i \in DOMAIN ordered :
                   resp'.body.restored[i] = Label(trash, ordered[i])]_vars

\* a restore succeeded on a closure that holds an Attribute referring to
\* itself, and the fallback moved the Product in front of the nodes collected
\* before it
C25_Witness ==
  /\ resp.op = "restore" /\ resp.status = 200
  /\ \E l \in Range(resp.body.links) : l[1] = l[2]
  /\ resp.body.restored_count >= 3
  /\ resp.body.restored[1][1] = "Product"
  /\ resp.body.nodes[1] # resp.body.ordered[1]

\* the parent link of every entry of T names an entry of T
NoDanglingParent(T) == \A e \in T : e.parent # 0 => e.parent \in Ids(T)

\* C26: a step that deletes a trash entry, in the cleanup of a restore or in
\* a permanent delete, deletes every entry linked below it through parent,
\* at any depth, so that after every step the parent link of a trash entry
\* names an entry of the trash store.
C26_TrashTreeCascade ==
  [][/\ \A e \in trash :
          e.id \notin Ids(trash') =>
            \A d \in Descendants(trash, {e.id}) : d \notin Ids(trash')
     /\ NoDanglingParent(trash')]_vars

\* the cleanup of a restore of a Product took with it the entry of an Image
\* that had been linked below the Product's entry
C26_Witness ==
  /\ resp.op = "restore" /\ resp.status = 200 /\ resp.fault = <<0, 0>>
  /\ resp.body.restored = << <<"Product", "P1">> >>
  /\ I1 \in world /\ I1 \notin DOMAIN live
  /\ trash = {}
  /\ clock = 1

C28_PermanentKept ==
  [][RestoreStep =>
       \A e \in {x \in trash : x.status = "PERMANENT"} :
         /\ e.id \notin Range(resp'.body.seeds)
         /\ e.id \notin Range(resp'.body.nodes)
         /\ e \in trash'
         /\ resp'.status = 200 =>
              \A n \in Range(resp'.body.ordered) :
                \A P \in ParentsOf(Entry(trash, n)) :
                  (e.table_name = P[1] /\ e.record_id = Str(P[2]))
                    => <<P[1], Str(P[2])>> \in DOMAIN live]_vars

\* C29 as stated: after a successful restore in which no statement was
\* refused, no trash entry is left with the table name and record id of a
\* row the restore made live, also when the trash store held several entries
\* for that key.
C29_NotLiveAndInTrash ==
  [][RestoreStep /\ resp'.status = 200 /\ resp'.fault = <<0, 0>> =>
       \A r \in Range(resp'.body.restored) :
         /\ r \in DOMAIN live'
         /\ \A e \in trash' : <<e.table_name, e.record_id>> # r]_vars

====
